---------------------------- MODULE Spec2Model ----------------------------
(***************************************************************************)
(* The detection engine of the tech-stack scanner: the tree source        *)
(* (FSProvider), the analyser's bounded index walk, its content cache,     *)
(* the manifest extractors and the rule evaluator.                         *)
(*                                                                         *)
(* File names, paths and file contents are strings, handled with the      *)
(* string operations the code uses (lastIndexOf, substring, includes,      *)
(* startsWith, split, trim).  A disk node is the tuple of its path         *)
(* segments below the repository root; the root itself is <<>>.            *)
(***************************************************************************)
EXTENDS Integers, Sequences, FiniteSets, TLC

(***************************************************************************)
(* Bounds of the model.                                                    *)
(***************************************************************************)
\* Entries on disk below the repository root.
MaxNodes == 4
\* Rules in the catalog of one scan.
MaxRules == 2
\* Paths on which a provider operation fails.
MaxFaults == 1
\* Changes made to the disk while a scan is running (SpecEnv only).
MaxEnvChanges == 1
\* Analyser invocations in one behaviour (SpecRerun only).
MaxRuns == 2

(***************************************************************************)
(* String helpers (JavaScript String methods).                             *)
(***************************************************************************)
CharAt(s, i) == SubSeq(s, i + 1, i + 1)

\* s.substring(i)
Substring(s, i) == SubSeq(s, i + 1, Len(s))

\* s.indexOf(ch) for a one-character ch: 0-based, -1 when absent.
IndexOf(s, ch) ==
  IF \E i \in 0..(Len(s) - 1) : CharAt(s, i) = ch
  THEN CHOOSE i \in 0..(Len(s) - 1) :
         /\ CharAt(s, i) = ch
         /\ \A j \in 0..(i - 1) : CharAt(s, j) # ch
  ELSE -1

\* s.lastIndexOf(ch) for a one-character ch: 0-based, -1 when absent.
LastIndexOf(s, ch) ==
  IF \E i \in 0..(Len(s) - 1) : CharAt(s, i) = ch
  THEN CHOOSE i \in 0..(Len(s) - 1) :
         /\ CharAt(s, i) = ch
         /\ \A j \in (i + 1)..(Len(s) - 1) : CharAt(s, j) # ch
  ELSE -1

\* s.startsWith(p)
StartsWith(s, p) == Len(p) <= Len(s) /\ SubSeq(s, 1, Len(p)) = p

\* s.endsWith(p)
EndsWith(s, p) == Len(p) <= Len(s) /\ SubSeq(s, Len(s) - Len(p) + 1, Len(s)) = p

\* s.includes(p)
Includes(s, p) ==
  \E i \in 0..(Len(s) - Len(p)) : SubSeq(s, i + 1, i + Len(p)) = p

\* s.split(ch) for a one-character separator.
RECURSIVE Split(_, _)
Split(s, ch) ==
  LET i == IndexOf(s, ch)
  IN  IF i = -1 THEN <<s>>
      ELSE <<SubSeq(s, 1, i)>> \o Split(Substring(s, i + 1), ch)

\* The elements of a sequence.
Range(seq) == {seq[i] : i \in 1..Len(seq)}

\* seq.filter(test), for a test given as the set of elements that pass.
RECURSIVE FilterSeq(_, _)
FilterSeq(seq, keep) ==
  IF seq = <<>> THEN <<>>
  ELSE (IF Head(seq) \in keep THEN <<Head(seq)>> ELSE <<>>)
         \o FilterSeq(Tail(seq), keep)

(***************************************************************************)
(* The disk behind the tree source.                                        *)
(***************************************************************************)
VARIABLES
  disk,      \* node -> [isDirectory, text]: what exists under the root
  faults     \* [list, read, exists]: where the provider's I/O fails

\* The entries a repository may hold, in directory-listing (readdir) order.
Candidates ==
  << [node |-> <<".appveyor.yml">>,                     isDirectory |-> FALSE],
     [node |-> <<".env">>,                              isDirectory |-> FALSE],
     [node |-> <<".github">>,                           isDirectory |-> TRUE],
     [node |-> <<".github", "workflows">>,              isDirectory |-> TRUE],
     [node |-> <<".js">>,                               isDirectory |-> FALSE],
     [node |-> <<"Cargo.toml">>,                        isDirectory |-> FALSE],
     [node |-> <<"app.js">>,                            isDirectory |-> FALSE],
     [node |-> <<"appveyor.yml">>,                      isDirectory |-> FALSE],
     [node |-> <<"compose.yml">>,                       isDirectory |-> FALSE],
     [node |-> <<"docs">>,                              isDirectory |-> TRUE],
     [node |-> <<"go.mod">>,                            isDirectory |-> FALSE],
     [node |-> <<"package.json">>,                      isDirectory |-> FALSE],
     [node |-> <<"pom.xml">>,                           isDirectory |-> FALSE],
     [node |-> <<"pyproject.toml">>,                    isDirectory |-> FALSE],
     [node |-> <<"requirements.txt">>,                  isDirectory |-> FALSE],
     [node |-> <<"src">>,                               isDirectory |-> TRUE],
     [node |-> <<"src", "appveyor.yml">>,               isDirectory |-> FALSE],
     [node |-> <<"src", "bin">>,                        isDirectory |-> TRUE],
     [node |-> <<"src", "bin", "app.js">>,              isDirectory |-> FALSE],
     [node |-> <<"src", "lib">>,                        isDirectory |-> TRUE],
     [node |-> <<"src", "lib", "appveyor.yml">>,        isDirectory |-> FALSE],
     [node |-> <<"src", "lib", "deep">>,                isDirectory |-> TRUE],
     [node |-> <<"src", "lib", "deep", "app.js">>,      isDirectory |-> FALSE] >>

CandidateNodes == {Candidates[i].node : i \in 1..Len(Candidates)}

Parent(node) == SubSeq(node, 1, Len(node) - 1)

\* The texts a file of the given name may hold.
TextChoices(name) ==
  CASE name = "pom.xml" ->
         {"<artifactId>spring-boot</artifactId>", "<artifactId>junit</artifactId>", ""}
    [] name = "package.json" ->
         {"{\"dependencies\":{\"react\":\"^18.0.0\"}}", "{\"dependencies\":"}
    [] name = ".env" ->
         {"# db\nPOSTGRES_URL=x\nMY_AWS_KEY=y"}
    [] OTHER -> {""}

\* fs.pathExists(target)
pathExists(target) == target \in DOMAIN disk

\* path.resolve(root, p), as the node below the root.
resolve(p) == FilterSeq(Split(p, "/"), {s \in Range(Split(p, "/")) : s # "" /\ s # "."})

\* fs.readdir(target, { withFileTypes: true }): the entries, or "throw".
readdir(target) ==
  IF target \in faults.list \/ ~disk[target].isDirectory
  THEN [ok |-> FALSE, val |-> <<>>]
  ELSE LET idx == FilterSeq([i \in 1..Len(Candidates) |-> i],
                            {i \in 1..Len(Candidates) :
                               /\ Candidates[i].node \in DOMAIN disk
                               /\ Candidates[i].node # <<>>
                               /\ Parent(Candidates[i].node) = target})
       IN  [ok |-> TRUE,
            val |-> [k \in 1..Len(idx) |->
                       [name |-> Candidates[idx[k]].node[Len(Candidates[idx[k]].node)],
                        isDirectory |-> disk[Candidates[idx[k]].node].isDirectory]]]

\* path.posix.join(dir, name)
posixJoin(dir, name) == IF dir = "" THEN name ELSE dir \o "/" \o name

(***************************************************************************)
(* FSProvider.  Each operation returns [ok, val]; ok = FALSE is a rejected *)
(* promise.                                                                *)
(***************************************************************************)
\* The listing without the filter on names that start with a dot.
listEveryEntry(dir, entries) ==
  [k \in 1..Len(entries) |->
     [path |-> posixJoin(IF dir = "." THEN "" ELSE dir, entries[k].name),
      name |-> entries[k].name,
      isDirectory |-> entries[k].isDirectory]]

RECURSIVE listEntries(_, _)
listEntries(dir, entries) ==
  IF entries = <<>> THEN <<>>
  ELSE LET e == Head(entries)
       IN  (IF StartsWith(e.name, ".") THEN <<>>
            ELSE << [path |-> posixJoin(IF dir = "." THEN "" ELSE dir, e.name),
                     name |-> e.name,
                     isDirectory |-> e.isDirectory] >>)
             \o listEntries(dir, Tail(entries))

\* listFiles without the pathExists test: readdir of a missing directory
\* rejects.
listFilesUnchecked(dir) ==
  IF ~pathExists(resolve(dir)) THEN [ok |-> FALSE, val |-> <<>>]
  ELSE IF ~readdir(resolve(dir)).ok THEN [ok |-> FALSE, val |-> <<>>]
  ELSE [ok |-> TRUE, val |-> listEntries(dir, readdir(resolve(dir)).val)]

listFiles(dir) ==
  LET target == resolve(dir)
  IN  IF ~pathExists(target) THEN [ok |-> TRUE, val |-> <<>>]
      ELSE LET entries == readdir(target)
           IN  IF ~entries.ok THEN [ok |-> FALSE, val |-> <<>>]
               ELSE [ok |-> TRUE, val |-> listEntries(dir, entries.val)]

readFile(filePath) ==
  LET target == resolve(filePath)
  IN  IF \/ ~pathExists(target)
         \/ target \in faults.read
         \/ disk[target].isDirectory
      THEN [ok |-> FALSE, val |-> ""]
      ELSE [ok |-> TRUE, val |-> disk[target].text]

exists(filePath) ==
  IF filePath \in faults.exists
  THEN [ok |-> FALSE, val |-> FALSE]
  ELSE [ok |-> TRUE, val |-> pathExists(resolve(filePath))]

(***************************************************************************)
(* The rule catalog.  A rule is [id, name, type, files, extensions,        *)
(* contentPatterns, dependencies, dotenv]; a strategy the rule does not    *)
(* declare is the empty sequence (the code's loops then do nothing, as for *)
(* an undefined field).  A pattern or dependency name is [re, src]: a      *)
(* string literal (re = FALSE) or a RegExp (re = TRUE).                    *)
(***************************************************************************)
Lit(s) == [re |-> FALSE, src |-> s]
Re(s)  == [re |-> TRUE,  src |-> s]

npm(name)    == [type |-> "npm",    name |-> name]
pip(name)    == [type |-> "python", name |-> name]
docker(name) == [type |-> "docker", name |-> name]
gomod(name)  == [type |-> "golang", name |-> name]
cargo(name)  == [type |-> "rust",   name |-> name]

NoStrategy ==
  [files |-> <<>>, extensions |-> <<>>, contentPatterns |-> <<>>,
   dependencies |-> <<>>, dotenv |-> <<>>]

Rule(id, name, type, strategies) ==
  [id |-> id, name |-> name, type |-> type] @@ strategies @@ NoStrategy

\* Rules of the built-in catalog, in catalog order, and (last) a rule that
\* declares all five strategies and a rule that declares none.
RuleBase ==
  << Rule("javascript", "JavaScript", "language",
          [extensions |-> <<".js", ".jsx", ".mjs", ".cjs">>]),
     Rule("react", "React", "ui_framework",
          [dependencies |-> <<npm(Lit("react"))>>]),
     Rule("django", "Django", "framework",
          [files |-> <<"manage.py">>,
           dependencies |-> <<pip(Lit("django")), pip(Lit("Django"))>>]),
     Rule("flask", "Flask", "framework",
          [dependencies |-> <<pip(Lit("flask")), pip(Lit("Flask"))>>]),
     Rule("fastapi", "FastAPI", "framework",
          [dependencies |-> <<pip(Lit("fastapi"))>>]),
     Rule("spring", "Spring", "framework",
          [contentPatterns |->
             << [file |-> "pom.xml",
                 patterns |-> <<Lit("spring-boot"), Lit("spring-framework")>>],
                [file |-> "build.gradle",
                 patterns |-> <<Lit("spring-boot"), Lit("spring-framework")>>] >>]),
     Rule("diesel", "Diesel", "orm",
          [files |-> <<"diesel.toml">>, dependencies |-> <<cargo(Lit("diesel"))>>]),
     Rule("github-actions", "GitHub Actions", "ci",
          [files |-> <<".github/workflows">>]),
     Rule("appveyor", "AppVeyor", "ci",
          [files |-> <<"appveyor.yml", ".appveyor.yml">>]),
     Rule("aws", "AWS", "cloud",
          [files |-> <<"serverless.yml", "samconfig.toml", "template.yaml", "cdk.json">>,
           dependencies |-> <<npm(Lit("aws-sdk")), npm(Lit("@aws-sdk/client-s3")),
                              pip(Lit("boto3"))>>,
           dotenv |-> <<"AWS_">>]),
     Rule("postgresql", "PostgreSQL", "db",
          [dependencies |-> <<npm(Lit("pg")), npm(Lit("postgres")), pip(Lit("psycopg2")),
                              pip(Lit("psycopg")), docker(Lit("postgres"))>>,
           dotenv |-> <<"POSTGRES_", "PG_", "DATABASE_URL">>]),
     Rule("redis", "Redis", "db",
          [dependencies |-> <<npm(Lit("redis")), npm(Lit("ioredis")), pip(Lit("redis")),
                              docker(Lit("redis")), gomod(Lit("github.com/redis/go-redis"))>>,
           dotenv |-> <<"REDIS_">>]),
     Rule("maven-js", "Maven JS", "tool",
          [files |-> <<"appveyor.yml">>,
           extensions |-> <<".js">>,
           contentPatterns |->
             << [file |-> "package.json", patterns |-> <<Lit("\"react\"")>>],
                [file |-> "pom.xml", patterns |-> <<Re("^<artifactId>junit")>>] >>,
           dependencies |-> <<npm(Lit("react"))>>,
           dotenv |-> <<"POSTGRES_">>]),
     Rule("vacuous", "Vacuous", "tool", <<>>) >>

(***************************************************************************)
(* The state of one analyser invocation.                                   *)
(***************************************************************************)
VARIABLES
  rules,         \* the rule catalog of this scan
  pc,            \* where the analyser is
  allPaths,      \* Set<string>: every path the walk recorded
  allFileNames,  \* Set<string>: the names the walk recorded
  extensions,    \* Set<string>: extensions of the root-level files
  dirs,          \* string[]: root-level directories queued for the walk
  dirIdx,        \* how many of dirs the walk has handled
  ioLog          \* the provider calls made so far: <<operation, argument>>

\* The extension of a root-level file name, or "" (lines 130-131).
extname(name) ==
  LET dotIdx == LastIndexOf(name, ".")
  IN  IF dotIdx > 0 THEN Substring(name, dotIdx) ELSE ""

(***************************************************************************)
(* 1. Build file index (root + 2 levels deep).                             *)
(***************************************************************************)
\* for (const f of rootFiles): the sets after the loop over the root listing.
rootPaths(rootFiles) == {f.path : f \in Range(rootFiles)}
rootNames(rootFiles) == {f.name : f \in Range(rootFiles)}
rootExtensions(rootFiles) ==
  {extname(f.name) : f \in {g \in Range(rootFiles) : ~g.isDirectory}} \ {""}

RECURSIVE rootDirs(_)
rootDirs(rootFiles) ==
  IF rootFiles = <<>> THEN <<>>
  ELSE (IF Head(rootFiles).isDirectory THEN <<Head(rootFiles).name>> ELSE <<>>)
         \o rootDirs(Tail(rootFiles))

\* The third level: the listing of one second-level directory adds paths
\* only; a failed listing adds nothing.
pathsOf(listing) == IF listing.ok THEN {gc.path : gc \in Range(listing.val)} ELSE {}

\* A walk that goes one level further: it lists the directories among the
\* grandchildren too.
listGreatGrandchildren(c) ==
  LET below == FilterSeq(listFiles(c.path).val,
                         {gc \in Range(listFiles(c.path).val) : gc.isDirectory})
  IN  [paths |-> pathsOf(listFiles(c.path))
                   \cup UNION {pathsOf(listFiles(gc.path)) : gc \in Range(below)},
       calls |-> << <<"listFiles", c.path>> >>
                   \o [k \in 1..Len(below) |-> <<"listFiles", below[k].path>>]]

\* [paths, calls] of listing the second-level directory c.
listGrandchildren(c) ==
  [paths |-> pathsOf(listFiles(c.path)), calls |-> << <<"listFiles", c.path>> >>]

\* if (c.isDirectory) { ... }
belowChild(c) ==
  IF c.isDirectory THEN listGrandchildren(c) ELSE [paths |-> {}, calls |-> <<>>]

\* for (const c of children): [paths, names, calls] added by the children.
RECURSIVE walkChildren(_)
addChild(c, below, rest) ==
  [paths |-> {c.path} \cup below.paths \cup rest.paths,
   names |-> {c.name} \cup rest.names,
   calls |-> below.calls \o rest.calls]

walkChildren(children) ==
  IF children = <<>> THEN [paths |-> {}, names |-> {}, calls |-> <<>>]
  ELSE addChild(Head(children), belowChild(Head(children)), walkChildren(Tail(children)))

\* The walk of one directory without the inner try/catch: the failed
\* listing of a child ends the walk of the whole directory.
walkDirUnguarded(dir) ==
  LET children == listFiles(dir)
  IN  IF /\ children.ok
         /\ \A c \in Range(children.val) : c.isDirectory => listFiles(c.path).ok
      THEN [walkChildren(children.val) EXCEPT !.calls = << <<"listFiles", dir>> >> \o @]
      ELSE [paths |-> {}, names |-> {}, calls |-> << <<"listFiles", dir>> >>]

\* One iteration of for (const dir of dirs), with its two try/catch blocks.
walkDir(dir) ==
  LET children == listFiles(dir)
      below == IF children.ok THEN walkChildren(children.val)
               ELSE [paths |-> {}, names |-> {}, calls |-> <<>>]
  IN  [below EXCEPT !.calls = << <<"listFiles", dir>> >> \o @]

(***************************************************************************)
(* Dependency extraction helpers.  The regular expressions of the code are *)
(* written out as the scans they perform.                                  *)
(***************************************************************************)
\* \s
IsSpace(ch) == ch \in {" ", "\t", "\n", "\r", "\f"}

\* A line terminator: what '.' does not match and what '^' (flag m) follows.
IsLineTerminator(ch) == ch \in {"\n", "\r"}

Quotes == {"'", "\""}

UpperCase == "ABCDEFGHIJKLMNOPQRSTUVWXYZ"
LowerCase == "abcdefghijklmnopqrstuvwxyz"
Digits    == "0123456789"

CharsOf(s) == {CharAt(s, i) : i \in 0..(Len(s) - 1)}

\* \w
IsWord(ch) == ch \in CharsOf(UpperCase) \cup CharsOf(LowerCase) \cup CharsOf(Digits) \cup {"_"}

upperChars == CharsOf(UpperCase)
lowerOf == [ch \in upperChars |-> CharAt(LowerCase, IndexOf(UpperCase, ch))]

toLowerChar(ch) == IF ch \in upperChars THEN lowerOf[ch] ELSE ch

\* s.toLowerCase(), which is how a RegExp with flag i compares letters.
RECURSIVE toLowerCase(_)
toLowerCase(s) ==
  IF s = "" THEN "" ELSE toLowerChar(CharAt(s, 0)) \o toLowerCase(Substring(s, 1))

\* s.trim()
RECURSIVE trimStart(_)
trimStart(s) ==
  IF s # "" /\ IsSpace(CharAt(s, 0)) THEN trimStart(Substring(s, 1)) ELSE s

RECURSIVE trimEnd(_)
trimEnd(s) ==
  IF s # "" /\ IsSpace(CharAt(s, Len(s) - 1)) THEN trimEnd(SubSeq(s, 1, Len(s) - 1)) ELSE s

trim(s) == trimEnd(trimStart(s))

\* content.split(/\r?\n/)
splitLines(content) ==
  LET parts == Split(content, "\n")
  IN  [i \in 1..Len(parts) |->
         IF i < Len(parts) /\ EndsWith(parts[i], "\r")
         THEN SubSeq(parts[i], 1, Len(parts[i]) - 1)
         ELSE parts[i]]

Min(S) == CHOOSE x \in S : \A y \in S : x <= y
Max(S) == CHOOSE x \in S : \A y \in S : x >= y

\* The index of the first character at or after i that is not in the class
\* (Len(s) when the run reaches the end): the end of a greedy run.
RunEnd(s, i, class) ==
  LET stops == {j \in i..(Len(s) - 1) : CharAt(s, j) \notin class}
  IN  IF stops = {} THEN (IF i > Len(s) THEN i ELSE Len(s)) ELSE Min(stops)

SpaceChars == {" ", "\t", "\n", "\r", "\f"}

\* The end of a greedy run of characters that are NOT in the class.
RunEndNot(s, i, class) ==
  LET stops == {j \in i..(Len(s) - 1) : CharAt(s, j) \in class}
  IN  IF stops = {} THEN (IF i > Len(s) THEN i ELSE Len(s)) ELSE Min(stops)

\* '^' under flag m
IsLineStart(s, i) == i = 0 \/ (i <= Len(s) /\ IsLineTerminator(CharAt(s, i - 1)))

\* s has the literal lit at index i.
HasAt(s, i, lit) == i + Len(lit) <= Len(s) /\ SubSeq(s, i + 1, i + Len(lit)) = lit

NoMatch == [ok |-> FALSE, name |-> "", end |-> 0]

\* JSON.parse of the texts a manifest can hold here: the keys of each
\* dependency group of the parsed object, or a thrown SyntaxError.
JSONparse(content) ==
  CASE content = "{\"dependencies\":{\"react\":\"^18.0.0\"}}" ->
         [ok |-> TRUE, val |-> [dependencies |-> <<"react">>]]
    [] content = "{\"dependencies\":{\"pg\":\"8\"},\"devDependencies\":{\"react\":\"18\"}}" ->
         [ok |-> TRUE, val |-> [dependencies |-> <<"pg">>, devDependencies |-> <<"react">>]]
    [] content = "{\"require\":{\"laravel/framework\":\"^10\"}}" ->
         [ok |-> TRUE, val |-> [require |-> <<"laravel/framework">>]]
    [] content = "{\"dependencies\":{\"psycopg2\":\"2\",\"fastapi\":\"1\"}}" ->
         [ok |-> TRUE, val |-> [dependencies |-> <<"psycopg2", "fastapi">>]]
    [] content = "{}" ->
         [ok |-> TRUE, val |-> [name |-> <<>>]]
    [] OTHER -> [ok |-> FALSE, val |-> [name |-> <<>>]]

\* Object.keys(pkg[group] ?? {})
keysOf(pkg, group) == IF group \in DOMAIN pkg THEN pkg[group] ELSE <<>>

extractNpmDeps(content) ==
  LET pkg == JSONparse(content)
  IN  IF ~pkg.ok THEN <<>>
      ELSE keysOf(pkg.val, "dependencies") \o keysOf(pkg.val, "devDependencies")
             \o keysOf(pkg.val, "peerDependencies") \o keysOf(pkg.val, "optionalDependencies")

\* l.replace(/#.*$/, '')
stripComment(l) ==
  LET hashes == {i \in (LastIndexOf(l, "\r") + 1)..(Len(l) - 1) : CharAt(l, i) = "#"}
  IN  IF hashes = {} THEN l ELSE SubSeq(l, 1, Min(hashes))

\* l.split(/[><=!~;\[]/)[0]
beforeSpecifier(l) == SubSeq(l, 1, RunEndNot(l, 0, {">", "<", "=", "!", "~", ";", "["}))

RECURSIVE pythonNames(_)
pythonNames(lines) ==
  IF lines = <<>> THEN <<>>
  ELSE LET l == trim(stripComment(Head(lines)))
           name == trim(beforeSpecifier(l))
       IN  (IF l # "" /\ ~StartsWith(l, "-") /\ name # "" THEN <<name>> ELSE <<>>)
             \o pythonNames(Tail(lines))

extractPythonDeps(content) == pythonNames(splitLines(content))

\* One exec of /^\s*gem\s+['"]([^'"]+)['"]/gm with the match starting at i.
gemAt(s, i) ==
  LET g == RunEnd(s, i, SpaceChars)
      q == RunEnd(s, g + 3, SpaceChars)
      e == RunEndNot(s, q + 1, Quotes)
  IN  IF /\ IsLineStart(s, i)
         /\ HasAt(s, g, "gem")
         /\ q > g + 3
         /\ q < Len(s) /\ CharAt(s, q) \in Quotes
         /\ e > q + 1
         /\ e < Len(s)
      THEN [ok |-> TRUE, name |-> SubSeq(s, q + 2, e), end |-> e + 1]
      ELSE NoMatch

\* One exec of /^\s+([\w./-]+)\s+v/gm with the match starting at i.
goAt(s, i) ==
  LET n == RunEnd(s, i, SpaceChars)
      e == RunEnd(s, n, {c \in CharsOf(s) : IsWord(c)} \cup {".", "/", "-"})
      v == RunEnd(s, e, SpaceChars)
  IN  IF /\ IsLineStart(s, i)
         /\ n > i
         /\ e > n
         /\ v > e
         /\ HasAt(s, v, "v")
      THEN [ok |-> TRUE, name |-> SubSeq(s, n + 1, e), end |-> v + 1]
      ELSE NoMatch

\* One exec of /image:\s*['"]?([^\s'"#]+)/g with the match starting at i.
imageAt(s, i) ==
  LET w == RunEnd(s, i + 6, SpaceChars)
      n == IF w < Len(s) /\ CharAt(s, w) \in Quotes THEN w + 1 ELSE w
      e == RunEndNot(s, n, SpaceChars \cup Quotes \cup {"#"})
  IN  IF HasAt(s, i, "image:") /\ e > n
      THEN [ok |-> TRUE, name |-> SubSeq(s, n + 1, e), end |-> e]
      ELSE NoMatch

\* One exec of /^FROM\s+([^\s]+)/gm with the match starting at i.
fromAt(s, i) ==
  LET n == RunEnd(s, i + 4, SpaceChars)
      e == RunEndNot(s, n, SpaceChars)
  IN  IF /\ IsLineStart(s, i)
         /\ HasAt(s, i, "FROM")
         /\ n > i + 4
         /\ e > n
      THEN [ok |-> TRUE, name |-> SubSeq(s, n + 1, e), end |-> e]
      ELSE NoMatch

matchAt(re, s, i) ==
  CASE re = "gem"   -> gemAt(s, i)
    [] re = "go"    -> goAt(s, i)
    [] re = "image" -> imageAt(s, i)
    [] re = "from"  -> fromAt(s, i)

\* while ((m = re.exec(content))) names.push(m[1]): the captures of every
\* match, each search resuming at the end of the previous match.
RECURSIVE execAll(_, _, _)
execAll(re, s, from) ==
  LET starts == {i \in from..Len(s) : matchAt(re, s, i).ok}
  IN  IF starts = {} THEN <<>>
      ELSE LET m == matchAt(re, s, Min(starts))
           IN  <<m.name>> \o execAll(re, s, m.end)

extractRubyDeps(content) == execAll("gem", content, 0)

extractGoDeps(content) == execAll("go", content, 0)

\* /^\[.*dependencies.*\]/i.test(line)
isDependenciesHeading(line) ==
  LET lower == toLowerCase(line)
  IN  /\ StartsWith(line, "[")
      /\ \E i \in 1..(Len(line) - 1) :
           /\ HasAt(lower, i, "dependencies")
           /\ \E j \in (i + 12)..(Len(line) - 1) :
                /\ CharAt(line, j) = "]"
                /\ \A k \in 1..(j - 1) : CharAt(line, k) # "\r"

\* line.match(/^(\S+)\s*=/): the capture, or "" when there is no match.  The
\* greedy \S+ gives characters back until '=' follows it.
cargoName(line) ==
  LET run == RunEndNot(line, 0, SpaceChars)
      ends == {e \in 1..run :
                 LET w == IF e = run THEN RunEnd(line, e, SpaceChars) ELSE e
                 IN  HasAt(line, w, "=")}
  IN  IF ends = {} THEN "" ELSE SubSeq(line, 1, Max(ends))

\* A scanner that a heading without dependencies does not stop.
RECURSIVE cargoLinesSticky(_, _)
cargoLinesSticky(lines, inDeps) ==
  IF lines = <<>> THEN <<>>
  ELSE LET line == Head(lines)
       IN  IF isDependenciesHeading(line) THEN cargoLinesSticky(Tail(lines), TRUE)
           ELSE IF StartsWith(line, "[") THEN cargoLinesSticky(Tail(lines), inDeps)
           ELSE (IF inDeps /\ cargoName(line) # "" THEN <<cargoName(line)>> ELSE <<>>)
                  \o cargoLinesSticky(Tail(lines), inDeps)

\* for (const line of ...): the names pushed from the rest of the lines.
RECURSIVE cargoLines(_, _)
cargoLines(lines, inDeps) ==
  IF lines = <<>> THEN <<>>
  ELSE LET line == Head(lines)
       IN  IF isDependenciesHeading(line) THEN cargoLines(Tail(lines), TRUE)
           ELSE IF StartsWith(line, "[") THEN cargoLines(Tail(lines), FALSE)
           ELSE (IF inDeps /\ cargoName(line) # "" THEN <<cargoName(line)>> ELSE <<>>)
                  \o cargoLines(Tail(lines), inDeps)

extractCargoDeps(content) == cargoLines(splitLines(content), FALSE)

extractComposerDeps(content) ==
  LET pkg == JSONparse(content)
  IN  IF ~pkg.ok THEN <<>>
      ELSE keysOf(pkg.val, "require") \o keysOf(pkg.val, "require-dev")

\* m[1].split(':')[0], for every capture
RECURSIVE stripTags(_)
stripTags(names) ==
  IF names = <<>> THEN <<>>
  ELSE <<Split(Head(names), ":")[1]>> \o stripTags(Tail(names))

extractDockerImages(content) == stripTags(execAll("image", content, 0))

\* The FROM lines of a Dockerfile (lines 210-214).
extractDockerfileImages(dockerfile) == stripTags(execAll("from", dockerfile, 0))

RECURSIVE envNames(_)
envNames(lines) ==
  IF lines = <<>> THEN <<>>
  ELSE LET l == trim(Head(lines))
           name == trim(Split(l, "=")[1])
       IN  (IF l # "" /\ ~StartsWith(l, "#") /\ name # "" THEN <<name>> ELSE <<>>)
             \o envNames(Tail(lines))

extractEnvVarNames(content) == envNames(splitLines(content))

\* pyproject.match(/\[project\][\s\S]*?dependencies\s*=\s*\[([\s\S]*?)\]/):
\* the capture as <<text>>, or <<>> when there is no match.
depSection(pyproject) ==
  LET heads == {i \in 0..Len(pyproject) : HasAt(pyproject, i, "[project]")}
      open(d) == LET a == RunEnd(pyproject, d + 12, SpaceChars)
                 IN  IF HasAt(pyproject, a, "=") THEN RunEnd(pyproject, a + 1, SpaceChars)
                     ELSE Len(pyproject)
      deps == IF heads = {} THEN {}
              ELSE {d \in (Min(heads) + 9)..Len(pyproject) :
                      /\ HasAt(pyproject, d, "dependencies")
                      /\ HasAt(pyproject, open(d), "[")
                      /\ \E c \in (open(d) + 1)..(Len(pyproject) - 1) :
                           CharAt(pyproject, c) = "]"}
  IN  IF deps = {} THEN <<>>
      ELSE LET b == open(Min(deps))
               c == Min({j \in (b + 1)..(Len(pyproject) - 1) : CharAt(pyproject, j) = "]"})
           IN  <<SubSeq(pyproject, b + 2, c)>>

\* s.replace(/"/g, '')
RECURSIVE stripQuotes(_)
stripQuotes(s) ==
  IF s = "" THEN ""
  ELSE (IF CharAt(s, 0) = "\"" THEN "" ELSE CharAt(s, 0)) \o stripQuotes(Substring(s, 1))

extractPyprojectDeps(pyproject) ==
  IF depSection(pyproject) = <<>> THEN <<>>
  ELSE extractPythonDeps(stripQuotes(depSection(pyproject)[1]))

(***************************************************************************)
(* 2. File content cache.  A cached value is <<text>>, or NULL for a read  *)
(* that failed.  readCached works on a memo [cache, io, reads, ret]: the   *)
(* cache, the provider calls and readCached results so far, and the value  *)
(* returned by the last call.                                              *)
(***************************************************************************)
VARIABLES
  contentCache,  \* Map<string, string | null>
  readLog        \* every value readCached has returned: <<path, value>>

NULL == <<>>

\* contentCache.set(filePath, content); return content
cacheSet(m, filePath, value) ==
  [cache |-> (filePath :> value) @@ m.cache,
   io    |-> Append(m.io, <<"readFile", filePath>>),
   reads |-> Append(m.reads, <<filePath, value>>),
   ret   |-> value]

\* try { content = await provider.readFile(filePath) } catch { content = null }
tryRead(content) == IF content.ok THEN <<content.val>> ELSE NULL

\* readCached without the contentCache.has(filePath) test.
readUncached(m, filePath) == cacheSet(m, filePath, tryRead(readFile(filePath)))

\* readCached that reads again when the cached value is null.
readRetrying(m, filePath) ==
  IF filePath \in DOMAIN m.cache /\ m.cache[filePath] # NULL
  THEN [m EXCEPT !.ret = m.cache[filePath],
                 !.reads = Append(@, <<filePath, m.cache[filePath]>>)]
  ELSE cacheSet(m, filePath, tryRead(readFile(filePath)))

\* readCached that hands a file's content out once: a later request for the
\* path gets null.
readConsumed(m, filePath) ==
  IF filePath \in DOMAIN m.cache
  THEN [m EXCEPT !.ret = NULL, !.reads = Append(@, <<filePath, NULL>>)]
  ELSE cacheSet(m, filePath, tryRead(readFile(filePath)))

readCached(m, filePath) ==
  IF filePath \in DOMAIN m.cache
  THEN [m EXCEPT !.ret = m.cache[filePath],
                 !.reads = Append(@, <<filePath, m.cache[filePath]>>)]
  ELSE cacheSet(m, filePath, tryRead(readFile(filePath)))

\* The memo an action starts from.
memo == [cache |-> contentCache, io |-> ioLog, reads |-> readLog, ret |-> NULL]

\* if (c): neither null nor the empty string
truthy(c) == c # NULL /\ c[1] # ""

(***************************************************************************)
(* 3. Extract all dependencies upfront; 4. extract .env variable names.    *)
(***************************************************************************)
VARIABLES
  depsMap,       \* Record<DepType, string[]>
  envVarNames    \* string[]

DepTypes == {"npm", "python", "ruby", "golang", "rust", "docker", "php"}

\* The manifests in the order the analyser reads them, each with the
\* ecosystem its names go to.
ManifestFiles ==
  << [file |-> "package.json",          type |-> "npm"],
     [file |-> "requirements.txt",      type |-> "python"],
     [file |-> "requirements-dev.txt",  type |-> "python"],
     [file |-> "requirements-base.txt", type |-> "python"],
     [file |-> "pyproject.toml",        type |-> "python"],
     [file |-> "Gemfile",               type |-> "ruby"],
     [file |-> "go.mod",                type |-> "golang"],
     [file |-> "Cargo.toml",            type |-> "rust"],
     [file |-> "composer.json",         type |-> "php"],
     [file |-> "docker-compose.yml",    type |-> "docker"],
     [file |-> "docker-compose.yaml",   type |-> "docker"],
     [file |-> "compose.yml",           type |-> "docker"],
     [file |-> "compose.yaml",          type |-> "docker"],
     [file |-> "Dockerfile",            type |-> "docker"] >>

EnvFiles ==
  <<".env", ".env.local", ".env.example", ".env.development", ".env.production",
    ".env.test">>

\* The extractor the analyser applies to each manifest.
extractFrom(file, content) ==
  CASE file = "package.json"   -> extractNpmDeps(content)
    [] file = "pyproject.toml" -> extractPyprojectDeps(content)
    [] file = "Gemfile"        -> extractRubyDeps(content)
    [] file = "go.mod"         -> extractGoDeps(content)
    [] file = "Cargo.toml"     -> extractCargoDeps(content)
    [] file = "composer.json"  -> extractComposerDeps(content)
    [] file = "Dockerfile"     -> extractDockerfileImages(content)
    [] file \in {"docker-compose.yml", "docker-compose.yaml", "compose.yml", "compose.yaml"}
                               -> extractDockerImages(content)
    [] OTHER                   -> extractPythonDeps(content)

\* Lines 173-215: [memo, deps] after the manifests have been read.
\* if (content) depsMap[type].push(...extractor(content))
pushDeps(f, m2, deps) ==
  IF truthy(m2.ret)
  THEN [deps EXCEPT ![f.type] = @ \o extractFrom(f.file, m2.ret[1])]
  ELSE deps

RECURSIVE readManifests(_, _, _)
readManifestsFrom(files, m2, deps) ==
  readManifests(Tail(files), m2, pushDeps(Head(files), m2, deps))

readManifests(files, m, deps) ==
  IF files = <<>> THEN [memo |-> m, deps |-> deps]
  ELSE readManifestsFrom(files, readCached(m, Head(files).file), deps)

\* Lines 218-222: [memo, names] after the env files have been read.
\* if (content) envVarNames.push(...extractEnvVarNames(content))
pushEnvNames(m2, names) ==
  IF truthy(m2.ret) THEN names \o extractEnvVarNames(m2.ret[1]) ELSE names

RECURSIVE readEnvFiles(_, _, _)
readEnvFilesFrom(files, m2, names) ==
  readEnvFiles(Tail(files), m2, pushEnvNames(m2, names))

readEnvFiles(files, m, names) ==
  IF files = <<>> THEN [memo |-> m, names |-> names]
  ELSE readEnvFilesFrom(files, readCached(m, Head(files)), names)

(***************************************************************************)
(* Rule evaluation.                                                        *)
(***************************************************************************)
VARIABLES
  ruleIdx,       \* how many rules of the catalog have been evaluated
  matched,       \* PayloadNode[]
  ruleLog        \* per evaluated rule: [id, result, via, calls, reads]

\* pat.test(content) for the RegExp sources used here: a literal, or a
\* literal anchored at the start by '^'.
regExpTest(src, s) ==
  IF StartsWith(src, "^") THEN StartsWith(s, Substring(src, 1)) ELSE Includes(s, src)

\* A pattern test that accepts the pattern only at the start of the content.
patternAtStart(pat, content) == StartsWith(content, pat.src)

\* Lines 275-279
patternMatches(pat, content) ==
  IF pat.re THEN regExpTest(pat.src, content) ELSE Includes(content, pat.src)

\* A name test that compares literal names without regard to case.
nameMatchesAnyCase(name, pkg) ==
  IF name.re THEN regExpTest(name.src, pkg) ELSE toLowerCase(pkg) = toLowerCase(name.src)

\* Lines 290-294
nameMatches(name, pkg) ==
  IF name.re THEN regExpTest(name.src, pkg) ELSE pkg = name.src

\* 1. File existence: "true", "none" (fall through) or "throw", with the
\* provider calls made.
RECURSIVE matchFiles(_, _)
\* if (await provider.exists(f)) return true
probeFile(files, found, io2) ==
  IF ~found.ok THEN [res |-> "throw", io |-> io2]
  ELSE IF found.val THEN [res |-> "true", io |-> io2]
  ELSE matchFiles(Tail(files), io2)

matchFiles(files, io) ==
  IF files = <<>> THEN [res |-> "none", io |-> io]
  ELSE IF Head(files) \in allFileNames \/ Head(files) \in allPaths
  THEN [res |-> "true", io |-> io]
  ELSE probeFile(files, exists(Head(files)), Append(io, <<"exists", Head(files)>>))

\* An extension test that wants every listed extension present.
matchEveryExtension(exts) == \A ext \in Range(exts) : ext \in extensions

\* 2. Extension
matchExtensions(exts) == \E ext \in Range(exts) : ext \in extensions

\* 3. Content patterns: "true" or "none", with the memo after the reads.
RECURSIVE matchContent(_, _)
\* if (content === null) continue; for (const pat of cp.patterns) ...
testContent(cps, m2) ==
  IF m2.ret = NULL THEN matchContent(Tail(cps), m2)
  ELSE IF \E pat \in Range(Head(cps).patterns) : patternMatches(pat, m2.ret[1])
  THEN [res |-> "true", memo |-> m2]
  ELSE matchContent(Tail(cps), m2)

matchContent(cps, m) ==
  IF cps = <<>> THEN [res |-> "none", memo |-> m]
  ELSE testContent(cps, readCached(m, Head(cps).file))

\* 4. Dependency matching
matchDependencies(deps) ==
  \E dep \in Range(deps) :
    \E pkg \in Range(depsMap[dep.type]) : nameMatches(dep.name, pkg)

\* A dotenv test that accepts the prefix anywhere in a variable name.
matchDotenvAnywhere(prefixes) ==
  /\ Len(envVarNames) > 0
  /\ \E prefix \in Range(prefixes) :
       \E v \in Range(envVarNames) : Includes(v, prefix)

\* 5. dotenv prefix matching
matchDotenv(prefixes) ==
  /\ Len(envVarNames) > 0
  /\ \E prefix \in Range(prefixes) :
       \E v \in Range(envVarNames) : StartsWith(v, prefix)

\* evaluateRule: [result, via, memo].  result is "true", "false" or "throw";
\* via is the number of the strategy that returned true (0: none).
\* evaluateRule ending in return true: a rule matches unless a strategy of
\* it has been tried and has failed.
returnTrue(rule, s3) ==
  IF s3.res = "true" THEN [result |-> "true", via |-> 3, memo |-> s3.memo]
  ELSE IF matchDependencies(rule.dependencies)
  THEN [result |-> "true", via |-> 4, memo |-> s3.memo]
  ELSE IF matchDotenv(rule.dotenv)
  THEN [result |-> "true", via |-> 5, memo |-> s3.memo]
  ELSE IF rule.files = <<>> /\ rule.extensions = <<>> /\ rule.contentPatterns = <<>>
          /\ rule.dependencies = <<>> /\ rule.dotenv = <<>>
  THEN [result |-> "true", via |-> 0, memo |-> s3.memo]
  ELSE [result |-> "false", via |-> 0, memo |-> s3.memo]

\* Strategies 3 to 5, given the outcome s3 of the content patterns.
afterContent(rule, s3) ==
  IF s3.res = "true" THEN [result |-> "true", via |-> 3, memo |-> s3.memo]
  ELSE IF matchDependencies(rule.dependencies)
  THEN [result |-> "true", via |-> 4, memo |-> s3.memo]
  ELSE IF matchDotenv(rule.dotenv)
  THEN [result |-> "true", via |-> 5, memo |-> s3.memo]
  ELSE [result |-> "false", via |-> 0, memo |-> s3.memo]

\* evaluateRule with the content patterns tried before the extensions.
contentBeforeExtensions(rule, s1, m1) ==
  LET s3 == matchContent(rule.contentPatterns, m1)
  IN  IF s1.res = "throw" THEN [result |-> "throw", via |-> 0, memo |-> m1]
      ELSE IF s1.res = "true" THEN [result |-> "true", via |-> 1, memo |-> m1]
      ELSE IF s3.res = "true" THEN [result |-> "true", via |-> 3, memo |-> s3.memo]
      ELSE IF matchExtensions(rule.extensions)
      THEN [result |-> "true", via |-> 2, memo |-> s3.memo]
      ELSE afterContent(rule, s3)

\* Strategies 1 and 2, given the outcome s1 of the marker files and the
\* memo m1 after their probes.
afterFiles(rule, s1, m1) ==
  IF s1.res = "throw" THEN [result |-> "throw", via |-> 0, memo |-> m1]
  ELSE IF s1.res = "true" THEN [result |-> "true", via |-> 1, memo |-> m1]
  ELSE IF matchExtensions(rule.extensions)
  THEN [result |-> "true", via |-> 2, memo |-> m1]
  ELSE afterContent(rule, matchContent(rule.contentPatterns, m1))

withIo(m, s1) == [m EXCEPT !.io = s1.io]

probeFiles(rule, m, s1) == afterFiles(rule, s1, withIo(m, s1))

evaluateRule(rule, m) == probeFiles(rule, m, matchFiles(rule.files, m.io))

\* The rule loop without the try/catch: a throwing rule rejects the scan.
rethrow(result) == IF result = "throw" THEN "rejected" ELSE "rules"

\* The try/catch around one rule (lines 228-234): where the analyser goes
\* after a rule has been evaluated, whatever its result.
afterRule(result) == "rules"

(***************************************************************************)
(* The analyser, one action per phase or loop iteration.                   *)
(***************************************************************************)
VARIABLES
  run,           \* the number of this analyser invocation
  prev,          \* [rules, ruleLog, matched, pc] of the previous invocation
  envChanges     \* how often the disk changed under the running scan

\* The state of scan(opts), the loop over a list of repositories.
VARIABLES
  opts,          \* ScanOptions: [repos, concurrency, cleanup]
  folders,       \* the local file system: path |-> what is there
  mapper,        \* per input index, the position and locals of its mapper call
  reports,       \* per input index, what its mapper call returned (or NULL)
  outcome        \* the promise scan returns: pending, fulfilled or rejected

batchVars == <<opts, folders, mapper, reports, outcome>>

scanVars == <<pc, allPaths, allFileNames, extensions, dirs, dirIdx, ioLog,
              contentCache, readLog, depsMap, envVarNames, ruleIdx, matched, ruleLog>>
analyserVars == <<disk, faults, rules, scanVars, run, prev, envChanges>>
vars == <<analyserVars, batchVars>>

\* The memo after a phase becomes the analyser's cache and logs.
setMemo(m) ==
  /\ contentCache' = m.cache
  /\ ioLog' = m.io
  /\ readLog' = m.reads

setDeps(r) == depsMap' = r.deps /\ setMemo(r.memo)

setEnvNames(r) == envVarNames' = r.names /\ setMemo(r.memo)

\* The rule loop with matched.unshift in place of matched.push.
unshiftMatched(rule, r) ==
  /\ matched' = IF r.result = "true"
                THEN <<[name |-> rule.name, type |-> rule.type]>> \o matched
                ELSE matched
  /\ setMemo(r.memo)
  /\ ruleLog' = Append(ruleLog,
                  [id |-> rule.id, result |-> r.result, via |-> r.via,
                   calls |-> SubSeq(r.memo.io, Len(ioLog) + 1, Len(r.memo.io)),
                   reads |-> SubSeq(r.memo.reads, Len(readLog) + 1, Len(r.memo.reads))])
  /\ pc' = afterRule(r.result)

\* if (matched) matched.push({ name: rule.name, type: rule.type }), inside
\* the try/catch; r is what evaluateRule returned or threw.
pushMatched(rule, r) ==
  /\ matched' = IF r.result = "true"
                THEN Append(matched, [name |-> rule.name, type |-> rule.type])
                ELSE matched
  /\ setMemo(r.memo)
  /\ ruleLog' = Append(ruleLog,
                  [id |-> rule.id, result |-> r.result, via |-> r.via,
                   calls |-> SubSeq(r.memo.io, Len(ioLog) + 1, Len(r.memo.io)),
                   reads |-> SubSeq(r.memo.reads, Len(readLog) + 1, Len(r.memo.reads))])
  /\ pc' = afterRule(r.result)

\* const rootFiles = await provider.listFiles('.') and the loop over it.
ListRoot ==
  /\ pc = "start"
  /\ LET rootFiles == listFiles(".")
     IN  /\ ioLog' = Append(ioLog, <<"listFiles", ".">>)
         /\ IF rootFiles.ok
            THEN /\ allPaths' = rootPaths(rootFiles.val)
                 /\ allFileNames' = rootNames(rootFiles.val)
                 /\ extensions' = rootExtensions(rootFiles.val)
                 /\ dirs' = rootDirs(rootFiles.val)
                 /\ pc' = "walk"
            ELSE /\ pc' = "rejected"
                 /\ UNCHANGED <<allPaths, allFileNames, extensions, dirs>>
  /\ UNCHANGED batchVars
  /\ UNCHANGED <<disk, faults, rules, dirIdx, contentCache, readLog, depsMap,
                 envVarNames, ruleIdx, matched, ruleLog, run, prev, envChanges>>

\* One iteration of for (const dir of dirs).
WalkDir ==
  /\ pc = "walk"
  /\ dirIdx < Len(dirs)
  /\ LET w == walkDir(dirs[dirIdx + 1])
     IN  /\ allPaths' = allPaths \cup w.paths
         /\ allFileNames' = allFileNames \cup w.names
         /\ ioLog' = ioLog \o w.calls
  /\ dirIdx' = dirIdx + 1
  /\ UNCHANGED batchVars
  /\ UNCHANGED <<disk, faults, rules, pc, extensions, dirs, contentCache, readLog,
                 depsMap, envVarNames, ruleIdx, matched, ruleLog, run, prev, envChanges>>

\* 3. Extract all dependencies upfront.
ExtractDeps ==
  /\ pc = "walk"
  /\ dirIdx = Len(dirs)
  /\ setDeps(readManifests(ManifestFiles, memo, depsMap))
  /\ pc' = "env"
  /\ UNCHANGED batchVars
  /\ UNCHANGED <<disk, faults, rules, allPaths, allFileNames, extensions, dirs, dirIdx,
                 envVarNames, ruleIdx, matched, ruleLog, run, prev, envChanges>>

\* 4. Extract .env variable names.
ExtractEnv ==
  /\ pc = "env"
  /\ setEnvNames(readEnvFiles(EnvFiles, memo, envVarNames))
  /\ pc' = "rules"
  /\ UNCHANGED batchVars
  /\ UNCHANGED <<disk, faults, rules, allPaths, allFileNames, extensions, dirs, dirIdx,
                 depsMap, ruleIdx, matched, ruleLog, run, prev, envChanges>>

\* 5. One iteration of for (const rule of rules).
EvaluateRule ==
  /\ pc = "rules"
  /\ ruleIdx < Len(rules)
  /\ pushMatched(rules[ruleIdx + 1], evaluateRule(rules[ruleIdx + 1], memo))
  /\ ruleIdx' = ruleIdx + 1
  /\ UNCHANGED batchVars
  /\ UNCHANGED <<disk, faults, rules, allPaths, allFileNames, extensions, dirs, dirIdx,
                 depsMap, envVarNames, run, prev, envChanges>>

\* return { childs: matched }
Return ==
  /\ pc = "rules"
  /\ ruleIdx = Len(rules)
  /\ pc' = "done"
  /\ UNCHANGED batchVars
  /\ UNCHANGED <<disk, faults, rules, allPaths, allFileNames, extensions, dirs, dirIdx,
                 ioLog, contentCache, readLog, depsMap, envVarNames, ruleIdx, matched,
                 ruleLog, run, prev, envChanges>>

(***************************************************************************)
(* The repo manager: where a repository entry is prepared.                 *)
(***************************************************************************)
MaxRepos == 2
MaxConcurrency == 2

WORKSPACE_ROOT == "/tmp/scanner-workspace"

\* path.resolve(p) for the paths entries carry, from the working directory
\* of the process.
Cwd == "/srv"

pathResolve(p) ==
  IF StartsWith(p, "/") THEN p
  ELSE IF StartsWith(p, "./") THEN Cwd \o "/" \o Substring(p, 2)
  ELSE Cwd \o "/" \o p

\* name.toLowerCase().replace(/[^a-z0-9]+/g, '-'): every run of other
\* characters becomes one dash.
slugChars == CharsOf(LowerCase) \cup CharsOf(Digits)
IsSlugChar(ch) == ch \in slugChars

RECURSIVE dashRuns(_, _)
dashRuns(s, inRun) ==
  IF s = "" THEN ""
  ELSE IF IsSlugChar(CharAt(s, 0)) THEN CharAt(s, 0) \o dashRuns(Substring(s, 1), FALSE)
  ELSE IF inRun THEN dashRuns(Substring(s, 1), TRUE)
  ELSE "-" \o dashRuns(Substring(s, 1), TRUE)

\* .replace(/(^-|-$)/g, '')
trimDashes(s) ==
  LET head == IF StartsWith(s, "-") THEN Substring(s, 1) ELSE s
  IN  IF EndsWith(head, "-") THEN SubSeq(head, 1, Len(head) - 1) ELSE head

slug(name) == trimDashes(dashRuns(toLowerCase(name), FALSE))

\* crypto.createHash('sha256').update(url).digest('hex').slice(0, 8), for
\* the URLs of the entries below.
sha256hex8(url) ==
  CASE url = "https://h.io/web.git"  -> "e12fbcb7"
    [] url = "https://h.io/gone.git" -> "18b6496c"
    [] url = "https://h.io/odd.git"  -> "1665df4d"

\* Lines 502-509
safeFolderName(name, url) == slug(name) \o "-" \o sha256hex8(url)

\* What a failed call throws: an Error with a message.
Error(message) == [message |-> message]

Allowed == <<"http:", "https:", "ssh:", "file:", "git@">>

RECURSIVE joinWith(_, _)
joinWith(seq, sep) ==
  IF seq = <<>> THEN ""
  ELSE IF Len(seq) = 1 THEN seq[1]
  ELSE seq[1] \o sep \o joinWith(Tail(seq), sep)

\* Line 522: the characters of the class, but for the backquote, which no
\* URL below holds.
Suspicious == {";", "&", "|", "$"}

\* Lines 512-525: whether the URL passes, and the Error thrown otherwise.
startsWithAny(s, prefixes) == \E k \in 1..Len(prefixes) : StartsWith(s, prefixes[k])

validateUrl(url) ==
  IF ~ startsWithAny(toLowerCase(url), Allowed)
  THEN [ok |-> FALSE,
        err |-> Error("Unsupported URL protocol in \"" \o url \o "\". Allowed: "
                        \o joinWith(Allowed, ", "))]
  ELSE IF CharsOf(url) \cap Suspicious # {}
  THEN [ok |-> FALSE, err |-> Error("URL contains suspicious characters: \"" \o url \o "\"")]
  ELSE [ok |-> TRUE]

\* Lines 528-535
isLocalPath(url) ==
  \/ StartsWith(url, "/")
  \/ StartsWith(url, ".")
  \/ /\ Len(url) >= 3
     /\ CharAt(url, 0) \in CharsOf(UpperCase) \cup CharsOf(LowerCase)
     /\ CharAt(url, 1) = ":"
     /\ CharAt(url, 2) = "\\"
  \/ StartsWith(url, "~")

Sensitive == <<"/etc", "/usr", "/bin", "/sbin", "C:\\Windows", "C:\\Program Files">>

\* s.toLowerCase() for each s of sensitive (line 564)
sensitiveLower == [k \in 1..Len(Sensitive) |-> toLowerCase(Sensitive[k])]

\* What is at a path: nothing, a file, or a directory with the tree it
\* holds and, for a clone, the URL of its origin ("" when it has none).
Nothing == [kind |-> "none", origin |-> "", tree |-> ""]
File    == [kind |-> "file", origin |-> "", tree |-> ""]
Directory(tree)     == [kind |-> "dir", origin |-> "", tree |-> tree]
Clone(origin, tree) == [kind |-> "dir", origin |-> origin, tree |-> tree]

\* fs.pathExists
pathExistsIn(fs, p) == p \in DOMAIN fs /\ fs[p].kind # "none"

at(fs, p) == IF p \in DOMAIN fs THEN fs[p] ELSE Nothing

\* fs.remove and what a successful clone leaves behind.
put(fs, p, node) == [q \in DOMAIN fs \cup {p} |-> IF q = p THEN node ELSE fs[q]]

\* Lines 556-569: the PrepareResult, or the Error thrown.
prepareLocal(fs, localUrl) ==
  LET resolved == pathResolve(localUrl)
  IN  IF ~ pathExistsIn(fs, resolved)
      THEN [ok |-> FALSE, err |-> Error("Local path does not exist: " \o resolved)]
      ELSE IF startsWithAny(toLowerCase(resolved), sensitiveLower)
      THEN [ok |-> FALSE, err |-> Error("Path \"" \o resolved \o "\" is inside a sensitive directory.")]
      ELSE [ok |-> TRUE, localPath |-> resolved, isTemporary |-> FALSE]

\* What the remote end of a URL holds; a URL that is not listed cannot be
\* cloned or pulled.
Remotes == [web |-> "https://h.io/web.git", odd |-> "https://h.io/odd.git"]

Reachable(url) == \E t \in DOMAIN Remotes : Remotes[t] = url

treeOf(url) == CHOOSE t \in DOMAIN Remotes : Remotes[t] = url

targetDirOf(name, url) == WORKSPACE_ROOT \o "/" \o safeFolderName(name, url)

(***************************************************************************)
(* The reporter.                                                           *)
(***************************************************************************)
\* Lines 48-82
categoryMap ==
  [ language |-> "languages", framework |-> "frameworks", ui_framework |-> "ui",
    ui |-> "ui", db |-> "databases", orm |-> "orm", ai |-> "ai",
    monitoring |-> "monitoring", analytics |-> "analytics", cloud |-> "cloud",
    hosting |-> "hosting", ci |-> "ci", test |-> "testing", auth |-> "auth",
    payment |-> "payment", notification |-> "notification", cms |-> "cms",
    queue |-> "queue", storage |-> "storage", iac |-> "iac", security |-> "security",
    automation |-> "automation", builder |-> "builders", linter |-> "linters",
    package_manager |-> "packageManagers", ssg |-> "ssg", validation |-> "validation",
    tool |-> "tools", saas |-> "tools", runtime |-> "tools", app |-> "tools",
    network |-> "tools", unknown |-> "tools" ]

\* Lines 84-93: the keys of emptyResults().
Buckets ==
  { "languages", "frameworks", "ui", "databases", "orm", "ai", "monitoring",
    "analytics", "cloud", "hosting", "ci", "testing", "auth", "payment",
    "notification", "cms", "queue", "storage", "iac", "security", "automation",
    "builders", "linters", "packageManagers", "ssg", "validation", "tools" }

\* The property names categoryMap inherits from Object.prototype: looking
\* one up yields a value that is neither undefined nor a key of the results.
Inherited ==
  { "constructor", "toString", "valueOf", "hasOwnProperty", "isPrototypeOf",
    "propertyIsEnumerable", "toLocaleString", "__proto__" }

\* Line 99: categoryMap[node.type] ?? 'tools'
bucketOf(type) ==
  IF type \in DOMAIN categoryMap THEN categoryMap[type]
  ELSE IF type \in Inherited THEN "[inherited]"
  ELSE "tools"

\* Line 107: [...new Set(names)]
RECURSIVE dedupe(_)
dedupe(names) ==
  IF names = <<>> THEN <<>>
  ELSE LET front == dedupe(SubSeq(names, 1, Len(names) - 1))
           last  == names[Len(names)]
       IN  IF last \in Range(front) THEN front ELSE Append(front, last)

namesIn(nodes, bucket) ==
  LET hits == FilterSeq(nodes, {n \in Range(nodes) : bucketOf(n.type) = bucket})
  IN  [k \in 1..Len(hits) |-> hits[k].name]

\* Lines 95-116, for the nodes the analyser builds (name and type, never
\* childs): the buckets that are left, each without repeats; or the
\* TypeError of line 100 when a bucket is not a key of the results.
categorise(nodes) ==
  IF \E k \in 1..Len(nodes) : bucketOf(nodes[k].type) \notin Buckets
  THEN [ok |-> FALSE, err |-> Error("Cannot read properties of undefined (reading 'push')")]
  ELSE LET left == {b \in Buckets : namesIn(nodes, b) # <<>>}
       IN  [ok |-> TRUE, results |-> [b \in left |-> dedupe(namesIn(nodes, b))]]

\* Lines 120-126
buildSuccessReport(repoName, results) ==
  [repo |-> repoName, status |-> "success", results |-> results]

\* Lines 128-134; everything thrown here is an Error.
buildErrorReport(repoName, error) ==
  [repo |-> repoName, status |-> "error", error |-> error.message]

(***************************************************************************)
(* The analysis adapter.                                                   *)
(***************************************************************************)
Node(name, type) == [name |-> name, type |-> type]

\* What the analyser returns for the trees the repositories below hold. The
\* tree "odd" stands for a payload with a type that is no TechType.
Payloads ==
  [ web |-> <<Node("JavaScript", "language"), Node("React", "ui"),
              Node("Bun", "package_manager"), Node("Node.js", "runtime"),
              Node("Bun", "runtime"), Node("Express", "framework"),
              Node("Nginx", "app"), Node("PostgreSQL", "db"),
              Node("GraphQL", "tool"), Node("Figma", "saas"),
              Node("Sentry", "monitoring")>>,
    stale |-> <<>>,
    odd |-> <<Node("Odd", "constructor")>> ]

\* analyseRepo(repoPath) on what is at the path when the root is listed:
\* FSProvider.listFiles answers [] for a missing path and rejects, with
\* readdir, for a path that is no directory.
analyseRepo(seen, repoPath) ==
  IF seen.kind = "none" THEN [ok |-> TRUE, childs |-> <<>>]
  ELSE IF seen.kind = "file"
  THEN [ok |-> FALSE, err |-> Error("ENOTDIR: not a directory, scandir '" \o repoPath \o "'")]
  ELSE [ok |-> TRUE, childs |-> Payloads[seen.tree]]

(***************************************************************************)
(* scan(opts): one mapper call per entry under pMap, one action per step   *)
(* between two awaits.                                                     *)
(***************************************************************************)
Indices == 1..Len(opts.repos)

Queued == [pc |-> "queued", localPath |-> "", isTemporary |-> FALSE,
           seen |-> Nothing, report |-> <<>>, thrown |-> <<>>]

\* The mapper calls pMap has started and that have not settled.
InFlight == {i \in Indices : mapper[i].pc \notin {"queued", "done"}}

\* An uncaught error in the mapper: the call rejects.
uncaught(repoName, err) == [kind |-> "throw", err |-> err]

\* Lines 51-54: the catch clause turns whatever was thrown into the value
\* the mapper call returns.
caught(repoName, err) == [kind |-> "return", report |-> buildErrorReport(repoName, err)]

\* pMap keeps what call i returned under index i and rejects, as a whole,
\* with the first rejection of a call.
settle(i, settled) ==
  IF settled.kind = "return"
  THEN /\ reports' = (i :> settled.report) @@ reports
       /\ UNCHANGED outcome
  ELSE /\ outcome' = [state |-> "rejected", value |-> <<>>]
       /\ UNCHANGED reports

\* Something throws inside the try block of call i.
throw(i, err) ==
  /\ mapper' = [mapper EXCEPT ![i].pc = "done", ![i].thrown = <<err>>]
  /\ settle(i, caught(opts.repos[i].name, err))

\* Line 50
returnReport(i, report) ==
  /\ mapper' = [mapper EXCEPT ![i].pc = "done", ![i].report = <<report>>]
  /\ settle(i, [kind |-> "return", report |-> report])

\* pMap starts the next entry, in input order, while fewer than
\* concurrency calls are in flight.
Start ==
  \E i \in Indices :
    /\ outcome.state = "pending"
    /\ mapper[i].pc = "queued"
    /\ \A j \in 1..(i - 1) : mapper[j].pc # "queued"
    /\ Cardinality(InFlight) < opts.concurrency
    /\ mapper' = [mapper EXCEPT ![i].pc = "prepare"]
    /\ UNCHANGED <<opts, folders, reports, outcome, analyserVars>>

\* Lines 548-550 and 33: what prepareLocal answered reaches the mapper.
local(i, prepared) ==
  IF prepared.ok
  THEN /\ mapper' = [mapper EXCEPT ![i].pc = "analyse",
                                   ![i].localPath = prepared.localPath,
                                   ![i].isTemporary = prepared.isTemporary]
       /\ UNCHANGED <<folders, reports, outcome>>
  ELSE /\ throw(i, prepared.err)
       /\ UNCHANGED folders

\* Lines 552-553 and 572-577: a URL that passed is given its target
\* directory under the workspace root, which is created when missing.
remote(i, valid, targetDir) ==
  IF ~ valid.ok
  THEN /\ throw(i, valid.err)
       /\ UNCHANGED folders
  ELSE /\ folders' = IF pathExistsIn(folders, WORKSPACE_ROOT) THEN folders
                     ELSE put(folders, WORKSPACE_ROOT, Directory(""))
       /\ mapper' = [mapper EXCEPT
            ![i].pc = IF pathExistsIn(folders, targetDir) THEN "origin" ELSE "clone",
            ![i].localPath = targetDir,
            ![i].isTemporary = TRUE]
       /\ UNCHANGED <<reports, outcome>>

\* Lines 545-554 with prepareLocal, validateUrl and, of prepareRemote, lines
\* 572-577: up to the test whether the target directory exists.
PrepareRepo ==
  \E i \in Indices :
    /\ mapper[i].pc = "prepare"
    /\ IF isLocalPath(opts.repos[i].url)
       THEN local(i, prepareLocal(folders, opts.repos[i].url))
       ELSE remote(i, validateUrl(opts.repos[i].url),
                   targetDirOf(opts.repos[i].name, opts.repos[i].url))
    /\ UNCHANGED <<opts, analyserVars>>

\* As GetOrigin, but a directory with another origin is overwritten by a
\* fresh clone instead of being reported.
GetOriginOverwrite ==
  \E i \in Indices :
    /\ mapper[i].pc = "origin"
    /\ LET here == at(folders, mapper[i].localPath)
       IN  mapper' = [mapper EXCEPT ![i].pc =
             IF here.kind = "dir" /\ here.origin # ""
                  /\ trim(here.origin) = trim(opts.repos[i].url)
             THEN "pull" ELSE "remove"]
    /\ UNCHANGED <<opts, folders, reports, outcome, analyserVars>>

\* Lines 579-587: git remote get-url origin in the target directory. A
\* directory without an origin makes git fail, which line 590 catches.
GetOrigin ==
  \E i \in Indices :
    /\ mapper[i].pc = "origin"
    /\ LET here == at(folders, mapper[i].localPath)
       IN  IF here.kind # "dir" \/ here.origin = ""
           THEN /\ mapper' = [mapper EXCEPT ![i].pc = "remove"]
                /\ UNCHANGED <<reports, outcome>>
           ELSE IF trim(here.origin) # trim(opts.repos[i].url)
           THEN throw(i, Error("Directory \"" \o mapper[i].localPath
                                 \o "\" already exists with a different origin.\n  Expected: "
                                 \o opts.repos[i].url \o "\n  Found:    " \o trim(here.origin)))
           ELSE /\ mapper' = [mapper EXCEPT ![i].pc = "pull"]
                /\ UNCHANGED <<reports, outcome>>
    /\ UNCHANGED <<opts, folders, analyserVars>>

\* Lines 589-593: git pull, which fails when the remote cannot be reached
\* or the directory is no clone any more; the failure is caught.
Pull ==
  \E i \in Indices :
    /\ mapper[i].pc = "pull"
    /\ LET here == at(folders, mapper[i].localPath)
       IN  IF here.kind = "dir" /\ here.origin # "" /\ Reachable(opts.repos[i].url)
           THEN /\ folders' = put(folders, mapper[i].localPath,
                                  Clone(here.origin, treeOf(opts.repos[i].url)))
                /\ mapper' = [mapper EXCEPT ![i].pc = "analyse"]
           ELSE /\ mapper' = [mapper EXCEPT ![i].pc = "remove"]
                /\ UNCHANGED folders
    /\ UNCHANGED <<opts, reports, outcome, analyserVars>>

\* Line 594
Remove ==
  \E i \in Indices :
    /\ mapper[i].pc = "remove"
    /\ folders' = put(folders, mapper[i].localPath, Nothing)
    /\ mapper' = [mapper EXCEPT ![i].pc = "clone"]
    /\ UNCHANGED <<opts, reports, outcome, analyserVars>>

\* Lines 604-608: git clone fails when the remote cannot be reached and
\* when the destination exists and is not an empty directory.
CloneFresh ==
  \E i \in Indices :
    /\ mapper[i].pc = "clone"
    /\ LET url == opts.repos[i].url
           targetDir == mapper[i].localPath
       IN  IF pathExistsIn(folders, targetDir)
           THEN /\ throw(i, Error("fatal: destination path '" \o targetDir
                                    \o "' already exists and is not an empty directory."))
                /\ UNCHANGED folders
           ELSE IF ~ Reachable(url)
           THEN /\ throw(i, Error("fatal: repository '" \o url \o "' not found"))
                /\ UNCHANGED folders
           ELSE /\ folders' = put(folders, targetDir, Clone(url, treeOf(url)))
                /\ mapper' = [mapper EXCEPT ![i].pc = "analyse"]
                /\ UNCHANGED <<reports, outcome>>
    /\ UNCHANGED <<opts, analyserVars>>

\* Line 37: analyseRepo starts by listing the root of localPath.
Analyse ==
  \E i \in Indices :
    /\ mapper[i].pc = "analyse"
    /\ mapper' = [mapper EXCEPT ![i].pc = "analysing",
                                ![i].seen = at(folders, mapper[i].localPath)]
    /\ UNCHANGED <<opts, folders, reports, outcome, analyserVars>>

\* As built, but the cleanup does not ask whether the directory is
\* temporary.
builtCleaningAll(i, categorised) ==
  IF ~ categorised.ok
  THEN throw(i, categorised.err)
  ELSE IF opts.cleanup
  THEN /\ mapper' = [mapper EXCEPT
            ![i].pc = "cleanup",
            ![i].report = <<buildSuccessReport(opts.repos[i].name, categorised.results)>>]
       /\ UNCHANGED <<reports, outcome>>
  ELSE returnReport(i, buildSuccessReport(opts.repos[i].name, categorised.results))

\* Lines 40-50: the report is built from the categorised payload and,
\* unless the clone is to be removed first, returned.
built(i, categorised) ==
  IF ~ categorised.ok
  THEN throw(i, categorised.err)
  ELSE IF opts.cleanup /\ mapper[i].isTemporary
  THEN /\ mapper' = [mapper EXCEPT
            ![i].pc = "cleanup",
            ![i].report = <<buildSuccessReport(opts.repos[i].name, categorised.results)>>]
       /\ UNCHANGED <<reports, outcome>>
  ELSE returnReport(i, buildSuccessReport(opts.repos[i].name, categorised.results))

\* Lines 37-40: the payload, or what the analysis threw.
analysed(i, payload) ==
  IF payload.ok THEN built(i, categorise(payload.childs)) ELSE throw(i, payload.err)

\* Lines 37-46: the analysis settles.
Analysed ==
  \E i \in Indices :
    /\ mapper[i].pc = "analysing"
    /\ analysed(i, analyseRepo(mapper[i].seen, mapper[i].localPath))
    /\ UNCHANGED <<opts, folders, analyserVars>>

\* Lines 47-50 with cleanupRepo (lines 613-616)
Cleanup ==
  \E i \in Indices :
    /\ mapper[i].pc = "cleanup"
    /\ folders' = put(folders, mapper[i].localPath, Nothing)
    /\ returnReport(i, mapper[i].report[1])
    /\ UNCHANGED <<opts, analyserVars>>

\* Lines 27 and 59: pMap fulfils with the results in input order once every
\* call has returned.
Resolve ==
  /\ outcome.state = "pending"
  /\ \A i \in Indices : mapper[i].pc = "done"
  /\ outcome' = [state |-> "fulfilled", value |-> [i \in Indices |-> reports[i]]]
  /\ UNCHANGED <<opts, folders, mapper, reports, analyserVars>>

(***************************************************************************)
(* Callers and the environment.                                            *)
(***************************************************************************)
NoPrev == [rules |-> <<>>, ruleLog |-> <<>>, matched |-> <<>>, pc |-> "none"]

\* The state a fresh analyser invocation starts from.
FreshScan ==
  /\ pc = "start"
  /\ allPaths = {} /\ allFileNames = {} /\ extensions = {}
  /\ dirs = <<>> /\ dirIdx = 0
  /\ ioLog = <<>>
  /\ contentCache = <<>> /\ readLog = <<>>
  /\ depsMap = [t \in DepTypes |-> <<>>]
  /\ envVarNames = <<>>
  /\ ruleIdx = 0 /\ matched = <<>> /\ ruleLog = <<>>

Reverse(seq) == [i \in 1..Len(seq) |-> seq[Len(seq) + 1 - i]]

\* The catalogs a later invocation is compared under: the same catalog, the
\* same rules in reverse order, and the catalog without one of its rules.
Variants(cat) ==
  {cat, Reverse(cat)}
    \cup {SubSeq(cat, 1, k - 1) \o SubSeq(cat, k + 1, Len(cat)) : k \in 1..Len(cat)}

\* A second invocation that finds the matched array of the first, as if
\* the array were created once per module and not once per call.
RescanKeepingMatched ==
  /\ pc \in {"done", "rejected"}
  /\ run < MaxRuns
  /\ run' = run + 1
  /\ prev' = [rules |-> rules, ruleLog |-> ruleLog, matched |-> matched, pc |-> pc]
  /\ rules' \in Variants(rules)
  /\ pc' = "start"
  /\ allPaths' = {} /\ allFileNames' = {} /\ extensions' = {}
  /\ dirs' = <<>> /\ dirIdx' = 0
  /\ ioLog' = <<>>
  /\ contentCache' = <<>> /\ readLog' = <<>>
  /\ depsMap' = [t \in DepTypes |-> <<>>]
  /\ envVarNames' = <<>>
  /\ ruleIdx' = 0 /\ ruleLog' = <<>>
  /\ UNCHANGED batchVars
  /\ UNCHANGED <<disk, faults, envChanges, matched>>

\* analyseRepo once more on the same directory: a new provider, a new
\* analyser invocation with nothing kept from the one before.
Rescan ==
  /\ pc \in {"done", "rejected"}
  /\ run < MaxRuns
  /\ run' = run + 1
  /\ prev' = [rules |-> rules, ruleLog |-> ruleLog, matched |-> matched, pc |-> pc]
  /\ rules' \in Variants(rules)
  /\ pc' = "start"
  /\ allPaths' = {} /\ allFileNames' = {} /\ extensions' = {}
  /\ dirs' = <<>> /\ dirIdx' = 0
  /\ ioLog' = <<>>
  /\ contentCache' = <<>> /\ readLog' = <<>>
  /\ depsMap' = [t \in DepTypes |-> <<>>]
  /\ envVarNames' = <<>>
  /\ ruleIdx' = 0 /\ matched' = <<>> /\ ruleLog' = <<>>
  /\ UNCHANGED batchVars
  /\ UNCHANGED <<disk, faults, envChanges>>

\* The files whose text the analyser looks into.
TextFiles == {<<"package.json">>, <<"pom.xml">>, <<".env">>}

Last(seq) == seq[Len(seq)]

\* Another process changes the repository while the scan runs: a file is
\* written (created or rewritten), or becomes unreadable or readable again.
EnvChange ==
  /\ pc \notin {"done", "rejected"}
  /\ envChanges < MaxEnvChanges
  /\ envChanges' = envChanges + 1
  /\ <<>> \in DOMAIN disk
  /\ \E n \in TextFiles :
       \/ /\ \E text \in TextChoices(Last(n)) :
               /\ IF n \in DOMAIN disk THEN disk[n].text # text ELSE TRUE
               /\ disk' = (n :> [isDirectory |-> FALSE, text |-> text]) @@ disk
          /\ UNCHANGED faults
       \/ /\ n \in DOMAIN disk
          /\ faults' = [faults EXCEPT !.read = IF n \in @ THEN @ \ {n} ELSE @ \cup {n}]
          /\ UNCHANGED disk
  /\ UNCHANGED batchVars
  /\ UNCHANGED <<rules, scanVars, run, prev>>

(***************************************************************************)
(* Initial states: the repositories and catalogs scanned.                  *)
(***************************************************************************)
IsDirectoryNode(n) == \E i \in 1..Len(Candidates) :
                        Candidates[i].node = n /\ Candidates[i].isDirectory

ParentClosed(S) == \A n \in S : Len(n) = 1 \/ Parent(n) \in S

TreesOver(cands) ==
  {S \in SUBSET cands : Cardinality(S) <= MaxNodes /\ ParentClosed(S)}

\* The disk holding the root and the nodes of S, with the given texts of
\* package.json, pom.xml and .env.
DiskOf(S, pkg, pom, env) ==
  [n \in S \cup {<<>>} |->
     [isDirectory |-> n = <<>> \/ IsDirectoryNode(n),
      text |-> IF n = <<>> THEN ""
               ELSE CASE Last(n) = "package.json" -> pkg
                      [] Last(n) = "pom.xml"      -> pom
                      [] Last(n) = ".env"         -> env
                      [] OTHER                    -> ""]]

DisksOf(S) ==
  {DiskOf(S, pkg, pom, env) :
     pkg \in TextChoices("package.json"), pom \in TextChoices("pom.xml"),
     env \in TextChoices(".env")}

CatalogsOf(ids, n) ==
  {FilterSeq(RuleBase, {r \in Range(RuleBase) : r.id \in I}) :
     I \in {J \in SUBSET ids : Cardinality(J) <= n}}

\* The fault sets of at most MaxFaults failing paths among the given ones.
FaultsOver(listable, readable, probed) ==
  LET targets == ({"list"} \X listable) \cup ({"read"} \X readable)
                   \cup ({"exists"} \X probed)
      pick(F, op) == {t[2] : t \in {u \in F : u[1] = op}}
  IN  {[list |-> pick(F, "list"), read |-> pick(F, "read"), exists |-> pick(F, "exists")] :
         F \in {G \in SUBSET targets : Cardinality(G) <= MaxFaults}}

Markers(cat) == UNION {Range(r.files) : r \in Range(cat)}

NoFaults == [list |-> {}, read |-> {}, exists |-> {}]

\* Repositories of any shape down to the fourth level, with directories
\* that cannot be listed, scanned with a catalog of at most one rule.
TreeNodes ==
  CandidateNodes \ (TextFiles \cup {<<"go.mod">>, <<"requirements.txt">>, <<"Cargo.toml">>,
                                     <<"compose.yml">>, <<"pyproject.toml">>})

InitTree ==
  /\ \E S \in TreesOver(TreeNodes) :
       /\ disk = DiskOf(S, "", "", "")
       /\ faults \in FaultsOver({n \in S \cup {<<>>} : n = <<>> \/ IsDirectoryNode(n)},
                                {}, {})
  /\ rules \in CatalogsOf({"javascript", "github-actions", "appveyor", "maven-js"}, 1)

\* Repositories of root-level files with every text, unreadable files and
\* failing existence checks, scanned with catalogs of up to MaxRules rules.
RootFiles == {<<".env">>, <<"app.js">>, <<"appveyor.yml">>, <<"package.json">>, <<"pom.xml">>}

InitRules ==
  /\ \E S \in TreesOver(RootFiles) :
       /\ disk \in DisksOf(S)
       /\ rules \in CatalogsOf({"spring", "appveyor", "postgresql", "maven-js"}, MaxRules)
       /\ faults \in FaultsOver({}, S, Markers(rules))

\* Repositories of manifests and env files that declare names close to the
\* names the rules ask for: another case, another ecosystem, a longer
\* module path, the prefix in the middle of a variable name.
NameTexts ==
  [ requirements |-> {"django==4.2\npostgres\n", "FastAPI\nPsycopg2"},
    package      |-> {"{\"dependencies\":{\"psycopg2\":\"2\",\"fastapi\":\"1\"}}"},
    env          |-> {"MY_POSTGRES_URL=x", "POSTGRES_URL=x\n", "# POSTGRES_URL\n\n"},
    gomod        |-> {"module app\n\nrequire (\n\tgithub.com/redis/go-redis/v9 v9.0.0\n)\n",
                      "\tgithub.com/redis/go-redis/v9 v9.0.0"} ]

\* The root directory with the given files in it: a function from file
\* name to text.
DiskHolding(texts) ==
  [n \in {<<>>} \cup {<<f>> : f \in DOMAIN texts} |->
     IF n = <<>> THEN [isDirectory |-> TRUE, text |-> ""]
     ELSE [isDirectory |-> FALSE, text |-> texts[n[1]]]]

\* f :> t for each text t of the set, and the empty function (no such file).
FileWith(f, texts) == {<<>>} \cup {f :> t : t \in texts}

InitNames ==
  /\ \E req \in FileWith("requirements.txt", NameTexts.requirements),
        pkg \in FileWith("package.json", NameTexts.package),
        env \in FileWith(".env", NameTexts.env),
        mod \in FileWith("go.mod", NameTexts.gomod) :
       disk = DiskHolding(req @@ pkg @@ env @@ mod)
  /\ faults = NoFaults
  /\ rules \in CatalogsOf({"django", "fastapi", "postgresql", "redis", "vacuous"}, MaxRules)

\* The texts of the manifests whose names are extracted by a scanner of
\* the analyser's own: a compose file, Cargo.toml and pyproject.toml.
ManifestTexts ==
  [ compose   |-> {"services:\n  db:\n    image: postgres:16\n",
                   "services:\n  app:\n    image: \"registry:5000/app:1.0\"\n",
                   "image: redis\nimage: 'postgres'\n",
                   "    image: ghcr.io/org/app:2 # pinned\n"},
    cargo     |-> {"[package]\nname = \"app\"\n\n[dependencies]\nserde = \"1\"\ntokio = { version = \"1\" }\n",
                   "top = 1\n[dev-dependencies]\ndiesel = \"2\"\n[features]\ndefault = []\n",
                   "[Dependencies]\r\nsentry=\"0.3\"\r\n[[bin]]\nname = \"x\"\n[target.x.dependencies]\nlibc = \"0.2\"\n",
                   "[dependencies]\n  indented = \"1\"\n# note = x\n\nrand = \"0.8\"\n"},
    pyproject |-> {"[project]\nname = \"x\"\ndependencies = [\"django\", \"flask\"]\n",
                   "[project]\ndependencies = [\n  \"django>=4.2\",\n  \"flask\",\n]\n",
                   "[project]\nname = \"x\"\n\n[tool.demo]\ndependencies = [\"left-pad\"]\n",
                   "[tool.demo]\ndependencies = [\"django\"]\n",
                   "[project]\ndependencies = [\"django\"]\n"} ]

\* A repository with a directory and at most one of these manifests.
InitManifests ==
  /\ \E m \in FileWith("compose.yml", ManifestTexts.compose)
               \cup FileWith("Cargo.toml", ManifestTexts.cargo)
               \cup FileWith("pyproject.toml", ManifestTexts.pyproject) :
       disk = DiskHolding(m) @@ (<<"docs">> :> [isDirectory |-> TRUE, text |-> ""])
  /\ faults = NoFaults
  /\ rules \in CatalogsOf({"django", "flask", "diesel", "postgresql"}, MaxRules)

\* A root directory that does not exist.
InitNoRoot ==
  /\ disk = <<>>
  /\ faults = NoFaults
  /\ rules \in CatalogsOf({"javascript", "appveyor", "spring"}, 1)

\* Repositories whose text files change under the scan.
InitEnv ==
  /\ \E S \in TreesOver(TextFiles \cup {<<"docs">>}) :
       /\ disk \in DisksOf(S)
       /\ faults \in FaultsOver({}, S \cap TextFiles, {})
  /\ rules \in CatalogsOf({"spring", "maven-js"}, MaxRules)

\* Repositories scanned twice, with failing existence checks.
RerunFiles == {<<"appveyor.yml">>, <<"docs">>, <<"package.json">>, <<"pom.xml">>}

InitRerun ==
  /\ \E S \in TreesOver(RerunFiles) :
       /\ disk \in DisksOf(S)
       /\ rules \in CatalogsOf({"react", "spring", "appveyor", "maven-js"}, MaxRules)
       /\ faults \in FaultsOver({}, {}, Markers(rules))

(***************************************************************************)
(* The scans that are checked.                                             *)
(***************************************************************************)
Entry(name, url) == [name |-> name, url |-> url]

\* Two entries that share a working directory, a remote that cannot be
\* reached, a remote that holds the tree "odd", and local paths that exist,
\* do not exist or are a file.
Entries ==
  { Entry("web", "https://h.io/web.git"), Entry("Web!", "https://h.io/web.git"),
    Entry("gone", "https://h.io/gone.git"), Entry("kit", "https://h.io/odd.git"),
    Entry("local", "/srv/web"), Entry("nope", "./nope"),
    Entry("notes", "/srv/notes.txt") }

SeqsUpTo(S, n) == UNION {[1..k -> S] : k \in 0..n}

LocalFolders ==
  ("/srv/web" :> Directory("web")) @@ ("/srv/notes.txt" :> File)

\* The scanner workspace before the scan: absent, holding clones of earlier
\* scans, or holding directories that are not the clones they are taken for.
Workspaces ==
  { <<>>,
    (targetDirOf("web", "https://h.io/web.git") :> Clone("https://h.io/web.git", "web"))
      @@ (targetDirOf("gone", "https://h.io/gone.git") :> Clone("https://h.io/gone.git", "stale"))
      @@ (WORKSPACE_ROOT :> Directory("")),
    (targetDirOf("web", "https://h.io/web.git") :> Clone("https://h.io/web", "web"))
      @@ (targetDirOf("gone", "https://h.io/gone.git") :> Directory("stale"))
      @@ (WORKSPACE_ROOT :> Directory("")) }

\* No scan of a list is under way: the analyser is called directly.
NoBatch ==
  /\ opts = [repos |-> <<>>, concurrency |-> 1, cleanup |-> FALSE]
  /\ folders = <<>>
  /\ mapper = <<>>
  /\ reports = <<>>
  /\ outcome = [state |-> "pending", value |-> <<>>]

\* scan(opts) has been called; the analyser's own state is not followed.
InitScan ==
  /\ opts \in [repos : SeqsUpTo(Entries, MaxRepos), concurrency : 1..MaxConcurrency,
               cleanup : BOOLEAN]
  /\ folders \in {LocalFolders @@ w : w \in Workspaces}
  /\ mapper = [i \in Indices |-> Queued]
  /\ reports = <<>>
  /\ outcome = [state |-> "pending", value |-> <<>>]
  /\ disk = DiskHolding(<<>>) /\ faults = NoFaults /\ rules = <<>>
  /\ FreshScan
  /\ run = 1 /\ prev = NoPrev /\ envChanges = 0

ScanNext ==
  \/ Start \/ PrepareRepo \/ GetOrigin \/ Pull \/ Remove \/ CloneFresh
  \/ Analyse \/ Analysed \/ Cleanup \/ Resolve

SpecScan == InitScan /\ [][ScanNext]_vars

InitCallers == run = 1 /\ prev = NoPrev /\ envChanges = 0 /\ NoBatch

Init == (InitTree \/ InitRules \/ InitNames \/ InitNoRoot) /\ FreshScan /\ InitCallers

Next == ListRoot \/ WalkDir \/ ExtractDeps \/ ExtractEnv \/ EvaluateRule \/ Return

Spec == Init /\ [][Next]_vars

\* The scan of a repository that changes while it is read.
EnvInit == InitEnv /\ FreshScan /\ InitCallers

EnvNext == Next \/ EnvChange

SpecEnv == EnvInit /\ [][EnvNext]_vars

\* Two invocations of the analyser on the same repository.
RerunInit == InitRerun /\ FreshScan /\ InitCallers

RerunNext == Next \/ Rescan

SpecRerun == RerunInit /\ [][RerunNext]_vars

\* The scan of a repository whose dependencies are in a compose file,
\* Cargo.toml or pyproject.toml.
ManifestsInit == InitManifests /\ FreshScan /\ InitCallers

SpecManifests == ManifestsInit /\ [][Next]_vars

\* Manifests and env files that are cut short or hold no name.
MalformedTexts ==
  ("package.json" :> "{\"dependencies\":")
    @@ ("Cargo.toml" :> "[dependencies\n= \"1\"\n")
    @@ ("compose.yml" :> "image:\n  image: '")
    @@ ("pyproject.toml" :> "[project]\ndependencies = [\"django\"\n")
    @@ (".env" :> "=\n#\n")

FailingDirs == {<<".github">>, <<".github", "workflows">>, <<"src">>, <<"src", "lib">>,
                <<"src", "lib", "deep">>}

\* Everything of one kind fails, or nothing of it: the listings below the
\* root, the reads, the existence checks. The root listing fails as well,
\* or does not.
FailingAll(d, cat) ==
  LET below == {n \in DOMAIN d : n # <<>> /\ d[n].isDirectory}
      files == {n \in DOMAIN d : ~ d[n].isDirectory}
  IN  {[list |-> L, read |-> R, exists |-> E] :
         L \in {{}, below, below \cup {<<>>}}, R \in {{}, files},
         E \in {{}, Markers(cat)}}

\* Repositories of malformed manifests and directories down to the third
\* level, where whole kinds of provider calls fail.
InitFailing ==
  /\ \E M \in {{}, {"package.json", ".env"}, DOMAIN MalformedTexts},
        D \in TreesOver(FailingDirs) :
       disk = DiskHolding([f \in M |-> MalformedTexts[f]])
                @@ [n \in D |-> [isDirectory |-> TRUE, text |-> ""]]
  /\ rules \in CatalogsOf({"github-actions", "django", "postgresql"}, MaxRules)
  /\ faults \in FailingAll(disk, rules)

FailingInit == InitFailing /\ FreshScan /\ InitCallers

SpecFailing == FailingInit /\ [][Next]_vars

(***************************************************************************)
(* Properties of the content cache.                                        *)
(***************************************************************************)
\* C1: within one analyser run provider.readFile(p) is invoked at most once
\* for every path p, however many extractors and rules request p through
\* readCached: no two entries of the run's provider calls are a readFile of
\* the same path.
ReadAtMostOnce ==
  \A i, j \in 1..Len(ioLog) :
    (ioLog[i][1] = "readFile" /\ ioLog[i] = ioLog[j]) => i = j

\* A path has been requested through readCached twice, and the disk changed
\* while the scan ran.
ReadTwiceRequested ==
  /\ envChanges > 0
  /\ \E i, j \in 1..Len(readLog) : i < j /\ readLog[i][1] = readLog[j][1]

\* C2: readCached is a write-once memo: what the first readCached of a path
\* returned (the text, or absent after any failure) is what the cache holds
\* for the path ever after and what every later readCached of the path in
\* the scan returns, even if the file would now be readable.
WriteOnceMemo ==
  \A i \in 1..Len(readLog) :
    /\ readLog[i][1] \in DOMAIN contentCache
    /\ contentCache[readLog[i][1]] = readLog[i][2]

\* A read failed, the file has become readable since, and a later readCached
\* of the path still returned absent.
AbsentNotRetried ==
  \E i, j \in 1..Len(readLog) :
    /\ i < j
    /\ readLog[i][1] = readLog[j][1]
    /\ readLog[j][2] = NULL
    /\ readFile(readLog[j][1]).ok

(***************************************************************************)
(* Properties of rule evaluation.  The strategies are restated over the    *)
(* disk and the index, without the evaluator's control flow.               *)
(***************************************************************************)
\* A file a content pattern can be tested on: it exists, is a regular file
\* and can be read.
Readable(p) ==
  /\ resolve(p) \in DOMAIN disk
  /\ ~disk[resolve(p)].isDirectory
  /\ resolve(p) \notin faults.read

MarkerFound(f) == f \in allFileNames \/ f \in allPaths \/ resolve(f) \in DOMAIN disk

ContentFound(cp) ==
  /\ Readable(cp.file)
  /\ \E pat \in Range(cp.patterns) : patternMatches(pat, disk[resolve(cp.file)].text)

Satisfied(R, k) ==
  CASE k = 1 -> \E f \in Range(R.files) : MarkerFound(f)
    [] k = 2 -> \E ext \in Range(R.extensions) : ext \in extensions
    [] k = 3 -> \E cp \in Range(R.contentPatterns) : ContentFound(cp)
    [] k = 4 -> matchDependencies(R.dependencies)
    [] k = 5 -> matchDotenv(R.dotenv)

FirstSatisfied(R) ==
  IF \E k \in 1..5 : Satisfied(R, k)
  THEN CHOOSE k \in 1..5 : Satisfied(R, k) /\ \A j \in 1..(k - 1) : ~Satisfied(R, j)
  ELSE 0

\* C3: evaluateRule tries marker files, extensions, content patterns,
\* dependencies and dotenv prefixes in this order and returns true at the
\* first satisfied strategy; once a strategy has succeeded no provider.exists
\* or readFile call is made for a later one: a rule matched by a marker made
\* no existence check after the marker found and requested no content, a
\* rule matched by an extension requested no content, and a rule matched by
\* content requested no file after the one that matched.
FixedStrategyOrder ==
  \A i \in 1..Len(ruleLog) :
    LET e == ruleLog[i]
        R == rules[i]
    IN  /\ e.result = "true" => e.via = FirstSatisfied(R)
        /\ e.result = "false" => FirstSatisfied(R) = 0
        /\ e.via \in {1, 2} =>
             /\ e.reads = <<>>
             /\ \A k \in 1..Len(e.calls) : e.calls[k][1] = "exists"
        /\ e.via = 1 =>
             \A k \in 1..(Len(e.calls) - 1) : ~MarkerFound(e.calls[k][2])
        /\ e.via = 3 =>
             \A k \in 1..(Len(e.reads) - 1) :
               \A cp \in Range(R.contentPatterns) :
                 cp.file = e.reads[k][1] => ~ContentFound(cp)

\* A rule matched by its marker file although its content patterns, its
\* dependencies and its dotenv prefixes were satisfied too.
MatchedByFirstOfSeveral ==
  \E i \in 1..Len(ruleLog) :
    /\ ruleLog[i].via = 1
    /\ \A k \in {3, 4, 5} : Satisfied(rules[i], k)

\* The catalog cat without its k-th rule.
Without(cat, k) == SubSeq(cat, 1, k - 1) \o SubSeq(cat, k + 1, Len(cat))

\* This scan ran the previous scan's catalog without its k-th rule, whose
\* evaluation threw in the previous scan.
FaultyRuleRemoved(k) ==
  /\ prev.pc = "done"
  /\ k \in 1..Len(prev.ruleLog)
  /\ prev.ruleLog[k].result = "throw"
  /\ rules = Without(prev.rules, k)

\* C4: a rule whose evaluation raises (provider.exists throws for one of its
\* marker files) is absent from the result, the scan still goes on to
\* return, and every other rule's outcome equals its outcome in a scan of
\* the same repository whose catalog lacks the faulty rule, so the two
\* scans return the same result.
FaultIsolation ==
  /\ \A i \in 1..Len(ruleLog) :
       ruleLog[i].result = "throw" =>
         /\ \A j \in 1..Len(matched) : matched[j].name # rules[i].name
         /\ pc \in {"rules", "done"}
  /\ \A k \in 1..Len(prev.ruleLog) :
       FaultyRuleRemoved(k) =>
         /\ \A i \in 1..Len(ruleLog) :
              ruleLog[i].result = Without(prev.ruleLog, k)[i].result
         /\ pc = "done" => matched = prev.matched

\* A scan in which one rule threw and another matched has been repeated
\* without the faulty rule.
RescannedWithoutFaulty ==
  /\ pc = "done"
  /\ matched # <<>>
  /\ \E k \in 1..Len(prev.ruleLog) : FaultyRuleRemoved(k)

\* A rule whose only strategy is content patterns, all of them literals.
ContentOnly(R) ==
  /\ R.contentPatterns # <<>>
  /\ R.files = <<>> /\ R.extensions = <<>> /\ R.dependencies = <<>> /\ R.dotenv = <<>>
  /\ \A cp \in Range(R.contentPatterns) : \A pat \in Range(cp.patterns) : ~pat.re

\* The file p is on disk, readable, and holds lit as a substring.
HoldsLiteral(p, lit) ==
  /\ Readable(p)
  /\ \E k \in 0..(Len(disk[resolve(p)].text) - Len(lit)) :
       SubSeq(disk[resolve(p)].text, k + 1, k + Len(lit)) = lit

\* C5: a rule whose only strategy is content patterns matches when a target
\* file contains a listed literal substring; it does not match when its
\* targets exist but contain none of the patterns; and when a target is
\* missing or its read throws the rule does not match on it and raises
\* nothing.
ContentOnlyRule ==
  \A i \in 1..Len(ruleLog) :
    ContentOnly(rules[i]) =>
      /\ ruleLog[i].result # "throw"
      /\ ruleLog[i].result = "true" <=>
           \E cp \in Range(rules[i].contentPatterns) :
             \E pat \in Range(cp.patterns) : HoldsLiteral(cp.file, pat.src)

\* A content-only rule did not match, without raising, on a target that is
\* on disk with a listed substring in it but whose read throws.
UnreadableTargetSkipped ==
  \E i \in 1..Len(ruleLog) :
    /\ ContentOnly(rules[i])
    /\ ruleLog[i].result = "false"
    /\ \E cp \in Range(rules[i].contentPatterns) :
         /\ resolve(cp.file) \in DOMAIN disk
         /\ resolve(cp.file) \in faults.read
         /\ \E pat \in Range(cp.patterns) : Includes(disk[resolve(cp.file)].text, pat.src)

(***************************************************************************)
(* Properties of the file index.  What the walk can see is restated over   *)
(* the disk: a node is seen when no segment of it starts with a dot and    *)
(* every directory above it can be listed.                                 *)
(***************************************************************************)
IndexBuilt == pc \in {"env", "rules", "done"}

Visible(n) == \A k \in 1..Len(n) : ~StartsWith(n[k], ".")

Listable(n) == n \in DOMAIN disk /\ disk[n].isDirectory /\ n \notin faults.list

\* The nodes of level 1 to 3 that the listings of the walk return.
Seen ==
  {n \in DOMAIN disk :
     /\ Len(n) \in 1..3
     /\ Visible(n)
     /\ \A k \in 1..(Len(n) - 1) : Listable(SubSeq(n, 1, k))}

SeenDirs(level) == {n \in Seen : Len(n) = level /\ disk[n].isDirectory}

NodePath(n) ==
  CASE Len(n) = 1 -> n[1]
    [] Len(n) = 2 -> n[1] \o "/" \o n[2]
    [] OTHER      -> n[1] \o "/" \o n[2] \o "/" \o n[3]

ListCalls == FilterSeq(ioLog, {c \in Range(ioLog) : c[1] = "listFiles"})

\* A rule whose only strategy is marker files.
MarkerOnly(R) ==
  /\ R.files # <<>>
  /\ R.extensions = <<>> /\ R.contentPatterns = <<>>
  /\ R.dependencies = <<>> /\ R.dotenv = <<>>

\* The listed markers of R that exist at the repository root.
MarkersAtRoot(R) == {f \in Range(R.files) : resolve(f) \in DOMAIN disk}

\* C6: a rule whose only strategy is marker files matches when exactly one
\* of its listed markers is at the repository root, and does not match when
\* none of them is, whatever else the tree holds below the root.
MarkerOnlyRule ==
  \A i \in 1..Len(ruleLog) :
    (MarkerOnly(rules[i]) /\ faults.exists = {}) =>
      /\ Cardinality(MarkersAtRoot(rules[i])) = 1 => ruleLog[i].result = "true"
      /\ MarkersAtRoot(rules[i]) = {} => ruleLog[i].result # "true"

\* C7: after index building the root name set holds exactly the basenames
\* of the entries listed at the root level; entries of the second and third
\* level add their paths to the path set only.
RootNamesOnly ==
  IndexBuilt =>
    /\ allFileNames = {n[1] : n \in {m \in Seen : Len(m) = 1}}
    /\ allPaths = {NodePath(n) : n \in Seen}

\* A rule whose only strategy is extensions.
ExtensionOnly(R) ==
  /\ R.extensions # <<>>
  /\ R.files = <<>> /\ R.contentPatterns = <<>>
  /\ R.dependencies = <<>> /\ R.dotenv = <<>>

\* The root-level files whose name ends in an extension listed by R.
RootFilesWith(R) ==
  {n \in DOMAIN disk :
     /\ Len(n) = 1
     /\ ~disk[n].isDirectory
     /\ \E ext \in Range(R.extensions) : EndsWith(n[1], ext)}

\* C8 as stated: a rule whose only strategy is extensions matches exactly
\* when some root-level file has a name ending in a listed extension.
ExtensionOnlyAnyRootFile ==
  \A i \in 1..Len(ruleLog) :
    ExtensionOnly(rules[i]) =>
      (ruleLog[i].result = "true" <=> RootFilesWith(rules[i]) # {})

\* C8: a rule whose only strategy is extensions matches when a root-level
\* file that the provider lists (its name does not start with a dot) has a
\* name ending in a listed extension; a root-level dot-file with such a name
\* and files with that extension that exist only below the root do not
\* cause a match.
ExtensionOnlyRule ==
  \A i \in 1..Len(ruleLog) :
    ExtensionOnly(rules[i]) =>
      (ruleLog[i].result = "true" <=> \E n \in RootFilesWith(rules[i]) : Visible(n))

\* An extension-only rule did not match a repository that holds a file with
\* a listed extension at the third level and a dot-file with one at the root.
OnlyHiddenOrNested ==
  \E i \in 1..Len(ruleLog) :
    /\ ExtensionOnly(rules[i])
    /\ ruleLog[i].result = "false"
    /\ RootFilesWith(rules[i]) # {}
    /\ \E n \in DOMAIN disk :
         Len(n) = 3 /\ \E ext \in Range(rules[i].extensions) : EndsWith(n[3], ext)

\* C9: index building lists only the root, each root-level directory and
\* each second-level directory: listFiles is never called on a directory of
\* the third level, every path of the index has at most three segments, and
\* the number of listFiles calls is 1 + (root-level directories) +
\* (second-level directories), the directories being those the listings
\* returned.
BoundedWalk ==
  /\ \A k \in 1..Len(ListCalls) : Len(resolve(ListCalls[k][2])) <= 2
  /\ \A p \in allPaths : Len(Split(p, "/")) <= 3
  /\ IndexBuilt =>
       /\ Range(ListCalls) =
            {<<"listFiles", ".">>}
              \cup {<<"listFiles", NodePath(n)>> : n \in SeenDirs(1) \cup SeenDirs(2)}
       /\ Len(ListCalls) = 1 + Cardinality(SeenDirs(1)) + Cardinality(SeenDirs(2))

\* The index of a repository with a directory at the third level and a file
\* in it has been built.
ThirdLevelDirectoryIndexed ==
  /\ IndexBuilt
  /\ \E n \in DOMAIN disk :
       /\ Len(n) = 4
       /\ NodePath(Parent(n)) \in allPaths

\* C10: a listFiles failure on a root-level or second-level directory is
\* treated as an empty listing: the walk is not abandoned (only a failed
\* listing of the root rejects the scan), every root-level directory is
\* still listed, and every entry reached through listings that succeed,
\* the siblings of a failing directory and their third-level listings
\* included, is in the index.
ListingFailureIsEmpty ==
  /\ pc = "rejected" => <<>> \in faults.list
  /\ IndexBuilt =>
       /\ \A n \in SeenDirs(1) : <<"listFiles", NodePath(n)>> \in Range(ioLog)
       /\ \A n \in Seen : NodePath(n) \in allPaths
       /\ \A p \in allPaths : \E n \in Seen : p = NodePath(n)

\* A second-level directory could not be listed, and the child of a sibling
\* directory is in the index.
SiblingOfFailedIndexed ==
  /\ IndexBuilt
  /\ \E n \in DOMAIN disk \cap faults.list :
       /\ Len(n) = 2
       /\ \E m \in Seen : Len(m) = 3 /\ Parent(Parent(m)) = Parent(n)
                           /\ NodePath(m) \in allPaths

(***************************************************************************)
(* Properties of the result.                                               *)
(***************************************************************************)
\* The positions, among the first k rules of the catalog, of the rules whose
\* evaluation returned true.
TruePositions(k) == {i \in 1..k : ruleLog[i].result = "true"}

\* C11: the analyser's result is a subsequence of the rule catalog in
\* catalog order: it holds exactly one {name, category} entry for each rule
\* whose evaluation returned true, none for any other rule, and no rule
\* contributes more than one entry: the j-th entry is that of the j-th rule
\* that returned true.
ResultInCatalogOrder ==
  /\ Len(ruleLog) = ruleIdx
  /\ Len(matched) = Cardinality(TruePositions(Len(ruleLog)))
  /\ \A i \in TruePositions(Len(ruleLog)) :
       matched[Cardinality(TruePositions(i))] =
         [name |-> rules[i].name, type |-> rules[i].type]

\* A scan has returned two entries from a catalog of two matching rules.
TwoRulesMatched ==
  /\ pc = "done"
  /\ Len(matched) = 2
  /\ matched[1] # matched[2]

\* This scan ran the catalog of the previous scan, which returned.
SameCatalogAgain == run > 1 /\ prev.pc = "done" /\ rules = prev.rules

SameRulesAgain ==
  /\ run > 1
  /\ prev.pc = "done"
  /\ Len(rules) = Len(prev.rules)
  /\ Range(rules) = Range(prev.rules)

\* C13: the set of matched rules does not depend on the order in which the
\* rules are evaluated: against the same tree source a permutation of the
\* catalog gives every rule the outcome it had before and the same set of
\* matches, although the content cache is filled in a different order.
OrderIndependence ==
  SameRulesAgain =>
    /\ \A i \in 1..Len(ruleLog) : \A j \in 1..Len(prev.rules) :
         prev.rules[j] = rules[i] => prev.ruleLog[j].result = ruleLog[i].result
    /\ pc = "done" => Range(matched) = Range(prev.matched)

\* The catalog was scanned in reverse order, and a rule that matched found
\* in the cache a file that it had to read from the provider before.
CacheFilledInOtherOrder ==
  /\ SameRulesAgain
  /\ rules # prev.rules
  /\ pc = "done"
  /\ \E i \in 1..Len(ruleLog) : \E j \in 1..Len(prev.rules) :
       /\ prev.rules[j] = rules[i]
       /\ ruleLog[i].result = "true"
       /\ Len(ruleLog[i].calls) < Len(prev.ruleLog[j].calls)

(***************************************************************************)
(* Properties of the dependency and dotenv strategies.                     *)
(***************************************************************************)
\* Every dependency name of R is a literal.
LiteralNames(R) == \A dep \in Range(R.dependencies) : ~dep.name.re

\* Some pair of R names, letter for letter, a name declared for the pair's
\* own ecosystem.
DeclaresExactly(R) ==
  \E dep \in Range(R.dependencies) :
    \E k \in 1..Len(depsMap[dep.type]) : depsMap[dep.type][k] = dep.name.src

\* C14: a literal dependency name matches only by exact, case-sensitive
\* equality with a name declared for the same ecosystem tag: a rule is
\* matched by its dependencies exactly when no earlier strategy matched it
\* and one of its pairs is declared letter for letter in the pair's own
\* ecosystem, unless its marker check threw (django satisfies
\* pip('django'); FastAPI does not satisfy
\* pip('fastapi'); an npm package psycopg2 does not satisfy pip('psycopg2')).
ExactDependencyNames ==
  \A i \in 1..Len(ruleLog) :
    (LiteralNames(rules[i]) /\ ruleLog[i].result # "throw") =>
      (ruleLog[i].via = 4 <=>
         /\ \A k \in 1..3 : ~Satisfied(rules[i], k)
         /\ DeclaresExactly(rules[i]))

\* The names declared for ecosystems other than t.
DeclaredElsewhere(t) == UNION {Range(depsMap[u]) : u \in DepTypes \ {t}}

\* A rule did not match although one pair of it is declared in another case
\* and another pair is declared in another ecosystem.
NearMissesRejected ==
  \E i \in 1..Len(ruleLog) :
    /\ ruleLog[i].result = "false"
    /\ \E dep \in Range(rules[i].dependencies) :
         \E pkg \in Range(depsMap[dep.type]) :
           toLowerCase(pkg) = toLowerCase(dep.name.src)
    /\ \E dep \in Range(rules[i].dependencies) :
         dep.name.src \in DeclaredElsewhere(dep.type)

\* Some extracted variable name begins with a prefix declared by R.
BeginsWithPrefix(R) ==
  \E k \in 1..Len(envVarNames) : \E j \in 1..Len(R.dotenv) :
    /\ Len(R.dotenv[j]) <= Len(envVarNames[k])
    /\ SubSeq(envVarNames[k], 1, Len(R.dotenv[j])) = R.dotenv[j]

\* C15: the dotenv strategy is satisfied exactly when some extracted
\* environment-variable name starts with some declared prefix (POSTGRES_URL
\* satisfies POSTGRES_, MY_POSTGRES_URL does not; with no extracted names it
\* is never satisfied): a rule is matched by its dotenv prefixes exactly
\* when no earlier strategy matched it and such a name exists (a rule
\* whose marker check threw is not matched at all).
DotenvPrefix ==
  \A i \in 1..Len(ruleLog) :
    ruleLog[i].result # "throw" =>
      (ruleLog[i].via = 5 <=>
         /\ \A k \in 1..4 : ~Satisfied(rules[i], k)
         /\ BeginsWithPrefix(rules[i]))

\* A rule did not match although a declared prefix of it occurs inside an
\* extracted variable name.
PrefixInsideRejected ==
  \E i \in 1..Len(ruleLog) :
    /\ ruleLog[i].result = "false"
    /\ \E v \in Range(envVarNames) : \E p \in Range(rules[i].dotenv) : Includes(v, p)

\* A rule that declares no strategy at all.
Vacuous(R) ==
  /\ R.files = <<>> /\ R.extensions = <<>> /\ R.contentPatterns = <<>>
  /\ R.dependencies = <<>> /\ R.dotenv = <<>>

\* C16: a rule that declares no strategy (no match, no dependencies, no
\* dotenv) never matches, whatever the tree source holds; its evaluation
\* raises no error, calls no provider operation and requests no content.
VacuousRuleNeverMatches ==
  \A i \in 1..Len(ruleLog) :
    Vacuous(rules[i]) =>
      /\ ruleLog[i].result = "false"
      /\ ruleLog[i].calls = <<>>
      /\ ruleLog[i].reads = <<>>
      /\ \A j \in 1..Len(matched) : matched[j].name # rules[i].name

\* A rule without strategies has been evaluated on a repository in which
\* another rule matched.
VacuousRuleEvaluated ==
  /\ pc = "done"
  /\ matched # <<>>
  /\ \E i \in 1..Len(ruleLog) : Vacuous(rules[i])

\* The go.mod of the repository requires the module
\* github.com/redis/go-redis/v9 at v9.0.0.
RequiresGoRedis ==
  /\ <<"go.mod">> \in DOMAIN disk
  /\ Includes(disk[<<"go.mod">>].text, "\tgithub.com/redis/go-redis/v9 v9.0.0")

\* C17: a root containing go.mod with the line
\* '\tgithub.com/redis/go-redis/v9 v9.0.0' yields a Redis match, obtained
\* through the golang dependency strategy of the catalog's redis rule.
GoRedisMatches ==
  \A i \in 1..Len(ruleLog) :
    (ruleLog[i].id = "redis" /\ RequiresGoRedis) =>
      (ruleLog[i].result = "true" /\ ruleLog[i].via = 4)

(***************************************************************************)
(* Properties of scans of particular repositories.                         *)
(***************************************************************************)
\* The root directory is empty or does not exist.
EmptyRoot == DOMAIN disk \subseteq {<<>>}

\* C18: scanning an empty root, or a root directory that does not exist,
\* completes with an empty match sequence and no error: the root listing is
\* empty, every manifest read is absent, and no rule of the catalog matches.
EmptyRootNoMatch ==
  (EmptyRoot /\ faults = NoFaults) =>
    /\ pc # "rejected"
    /\ allPaths = {} /\ allFileNames = {} /\ extensions = {} /\ dirs = <<>>
    /\ \A k \in 1..Len(readLog) : readLog[k][2] = NULL
    /\ \A i \in 1..Len(ruleLog) : ruleLog[i].result = "false"
    /\ matched = <<>>

\* The scan of a root directory that does not exist has returned after
\* evaluating a rule.
MissingRootScanned ==
  /\ disk = <<>>
  /\ pc = "done"
  /\ ruleLog # <<>>
  /\ readLog # <<>>

\* Some segment of the path p begins with a dot.
HiddenPath(p) == \E k \in 1..Len(Split(p, "/")) : StartsWith(Split(p, "/")[k], ".")

\* The markers of R that lie on a dot-prefixed path and exist on disk.
HiddenMarkers(R) ==
  {f \in Range(R.files) : HiddenPath(f) /\ resolve(f) \in DOMAIN disk}

\* C19: FSProvider.listFiles never returns an entry whose name begins with a
\* dot, so no dot-prefixed file or directory, nor anything beneath a
\* dot-prefixed directory, is ever in the index; a marker-only rule whose
\* marker is such a path (.github/workflows) still matches when the path
\* exists, through the direct provider.exists check when no marker of the
\* rule is in the index.
HiddenEntries ==
  /\ \A p \in allPaths : ~HiddenPath(p)
  /\ \A n \in allFileNames : ~StartsWith(n, ".")
  /\ \A i \in 1..Len(ruleLog) :
       (MarkerOnly(rules[i]) /\ faults.exists = {} /\ HiddenMarkers(rules[i]) # {}) =>
         /\ ruleLog[i].result = "true"
         /\ ruleLog[i].via = 1
         /\ (\A g \in Range(rules[i].files) : g \notin allFileNames \cup allPaths) =>
              \E f \in HiddenMarkers(rules[i]) : <<"exists", f>> \in Range(ruleLog[i].calls)

\* A rule matched on a marker below a dot-prefixed directory, by an
\* existence check, in a repository that has visible entries too.
HiddenMarkerMatched ==
  /\ allPaths # {}
  /\ \E i \in 1..Len(ruleLog) :
       /\ ruleLog[i].result = "true"
       /\ \E f \in HiddenMarkers(rules[i]) :
            Len(resolve(f)) = 2 /\ <<"exists", f>> \in Range(ruleLog[i].calls)

(***************************************************************************)
(* Reports of a scan of several repositories.                              *)
(***************************************************************************)
\* What the reporter makes of the payload of each tree.
Categorised == [t \in DOMAIN Payloads |-> categorise(Payloads[t])]

\* The report entry i settled with, from what its own mapper call went
\* through: the error it threw, or the payload of the directory it listed.
OwnReport(i) ==
  IF mapper[i].thrown # <<>>
  THEN [repo |-> opts.repos[i].name, status |-> "error",
        error |-> mapper[i].thrown[1].message]
  ELSE [repo |-> opts.repos[i].name, status |-> "success",
        results |-> IF mapper[i].seen.kind = "dir"
                    THEN Categorised[mapper[i].seen.tree].results
                    ELSE categorise(<<>>).results]

\* The report of a local path does not depend on the list it is scanned in:
\* it follows from the entry and what is at the path.
LocalReport(entry) ==
  LET resolved == pathResolve(entry.url)
      here     == at(LocalFolders, resolved)
  IN  IF here.kind = "none"
      THEN [repo |-> entry.name, status |-> "error",
            error |-> "Local path does not exist: " \o resolved]
      ELSE IF here.kind = "file"
      THEN [repo |-> entry.name, status |-> "error",
            error |-> "ENOTDIR: not a directory, scandir '" \o resolved \o "'"]
      ELSE [repo |-> entry.name, status |-> "success",
            results |-> Categorised[here.tree].results]

\* C20: scan never rejects, and what it fulfils with has one report per
\* entry of the input, at the entry's index and under the entry's name: an
\* error report with the message of what the entry's preparation, analysis
\* or report building threw, a success report of the entry's own payload
\* otherwise. The report of a local path is the same whatever its siblings
\* in the list did.
OneReportPerRepository ==
  /\ outcome.state # "rejected"
  /\ \A i \in DOMAIN reports : mapper[i].pc = "done" /\ reports[i] = OwnReport(i)
  /\ outcome.state = "fulfilled" =>
       /\ Len(outcome.value) = Len(opts.repos)
       /\ \A i \in Indices :
            /\ outcome.value[i] = OwnReport(i)
            /\ isLocalPath(opts.repos[i].url) =>
                 outcome.value[i] = LocalReport(opts.repos[i])

\* Two entries were in flight together, the first threw and the second
\* was reported with what its repository holds.
ErrorBesideSuccess ==
  /\ outcome.state = "fulfilled"
  /\ opts.concurrency = 2
  /\ Len(opts.repos) = 2
  /\ mapper[1].thrown # <<>>
  /\ outcome.value[1].status = "error"
  /\ outcome.value[2].status = "success"
  /\ DOMAIN outcome.value[2].results # {}

(***************************************************************************)
(* Properties of the manifest scanners.                                    *)
(***************************************************************************)
ManifestsRead == pc \in {"env", "rules", "done"}

\* The text of a file in the root, "" when there is none.
TextOf(f) == IF <<f>> \in DOMAIN disk THEN disk[<<f>>].text ELSE ""

\* An image reference without its tag: what follows the last colon is a
\* tag when it holds no slash.
withoutTag(ref) ==
  LET colons == {i \in 0..(Len(ref) - 1) :
                   CharAt(ref, i) = ":" /\ ~Includes(Substring(ref, i + 1), "/")}
  IN  IF colons = {} THEN ref ELSE SubSeq(ref, 1, Max(colons))

\* The image references of the compose file, quotes removed, one per
\* occurrence of an image: key.
ImageReferences == execAll("image", TextOf("compose.yml"), 0)

\* C21: the docker names taken from a compose file are, for each image:
\* occurrence, the reference with its quotes removed and only a trailing
\* :tag removed, so that a registry host with a port is kept
\* (registry:5000/app:1.0 gives registry:5000/app).
ComposeImageNames ==
  ManifestsRead =>
    depsMap.docker = [k \in 1..Len(ImageReferences) |-> withoutTag(ImageReferences[k])]

\* The lines of pyproject.toml that belong to its [project] section: those
\* after the heading and before the next heading.
ProjectSection ==
  LET lines == splitLines(TextOf("pyproject.toml"))
      heads == {k \in 1..Len(lines) : trim(lines[k]) = "[project]"}
  IN  IF heads = {} THEN <<>>
      ELSE LET h    == Min(heads)
               next == {k \in (h + 1)..Len(lines) : StartsWith(lines[k], "[")}
           IN  SubSeq(lines, h + 1, IF next = {} THEN Len(lines) ELSE Min(next) - 1)

\* The [project] section has a dependencies = [...] array of its own.
ProjectHasDependencies ==
  \E k \in 1..Len(ProjectSection) :
    /\ StartsWith(ProjectSection[k], "dependencies")
    /\ StartsWith(trimStart(Substring(ProjectSection[k], 12)), "=")

\* C22: python names are taken from pyproject.toml only out of the
\* dependencies array of the [project] section: when that section has no
\* such array, a dependencies array under a later heading contributes no
\* name.
PyprojectScopedToProject ==
  (ManifestsRead /\ ~ProjectHasDependencies) => depsMap.python = <<>>

\* The lines of Cargo.toml, the headings among them, and the name a line
\* of the form name = ... gives ("" for any other line).
CargoLines == splitLines(TextOf("Cargo.toml"))

Heading(k) == StartsWith(CargoLines[k], "[")

DependenciesHeading(k) ==
  Heading(k) /\ Includes(toLowerCase(CargoLines[k]), "dependencies")

NameLine(k) == ~Heading(k) /\ cargoName(CargoLines[k]) # ""

\* The most recent heading before line k, 0 when there is none.
HeadingBefore(k) ==
  LET before == {j \in 1..(k - 1) : Heading(j)}
  IN  IF before = {} THEN 0 ELSE Max(before)

\* Line k is a name line under a dependencies heading.
Contributes(k) ==
  /\ NameLine(k)
  /\ HeadingBefore(k) # 0
  /\ DependenciesHeading(HeadingBefore(k))

\* C23: the Cargo scanner has two states: a heading containing
\* 'dependencies', in any case, enters the dependencies state and any
\* other heading leaves it; the rust names are the names of the name = ...
\* lines whose most recent heading is a dependencies heading, in line
\* order, and lines before the first heading give none.
CargoTwoStateScanner ==
  ManifestsRead =>
    LET given == FilterSeq([k \in 1..Len(CargoLines) |-> k],
                           {k \in 1..Len(CargoLines) : Contributes(k)})
    IN  depsMap.rust = [n \in 1..Len(given) |-> cargoName(CargoLines[given[n]])]

\* A Cargo.toml was scanned that has a name line before its first heading,
\* one under a dependencies heading and one under a later heading of
\* another kind.
CargoStateLeft ==
  /\ ManifestsRead
  /\ depsMap.rust # <<>>
  /\ \E k \in 1..Len(CargoLines) : NameLine(k) /\ HeadingBefore(k) = 0
  /\ \E k \in 1..Len(CargoLines) :
       /\ NameLine(k)
       /\ ~Contributes(k)
       /\ \E j \in 1..(HeadingBefore(k) - 1) : DependenciesHeading(j)

\* The elements of the dependencies array of the [project] section, as
\* written between its brackets, and the bare name of an element: without
\* quotes, spaces and version specifier.
RECURSIVE bareNames(_)
bareNames(elements) ==
  IF elements = <<>> THEN <<>>
  ELSE LET bare == trim(beforeSpecifier(trim(stripQuotes(Head(elements)))))
       IN  (IF bare = "" THEN <<>> ELSE <<bare>>) \o bareNames(Tail(elements))

ListedPackages ==
  IF ProjectHasDependencies /\ depSection(TextOf("pyproject.toml")) # <<>>
  THEN Range(bareNames(Split(depSection(TextOf("pyproject.toml"))[1], ",")))
  ELSE {}

\* C30: every package listed in the dependencies array of [project] is in
\* the python list under its bare name, whether the array is written on one
\* line or one element per line, and satisfies the pip pair that names it:
\* with dependencies = ["django", "flask"] the rules for pip('django') and
\* pip('flask') match.
PyprojectPackagesListed ==
  ManifestsRead =>
    /\ ListedPackages \subseteq Range(depsMap.python)
    /\ \A i \in 1..Len(ruleLog) :
         (\E dep \in Range(rules[i].dependencies) :
            dep.type = "python" /\ ~dep.name.re /\ dep.name.src \in ListedPackages)
           => ruleLog[i].result = "true"


(***************************************************************************)
(* The clones a scan leaves in the workspace.                              *)
(***************************************************************************)
\* Call i settles in this step, after prepareRepo handed it a temporary
\* clone: from the analysis, the report building or the cleanup.
SettlesWithClone(i) ==
  /\ mapper[i].isTemporary
  /\ mapper[i].pc \in {"analysing", "cleanup"}
  /\ mapper'[i].pc = "done"

Target(i) == at(folders, targetDirOf(opts.repos[i].name, opts.repos[i].url))

DifferentOrigin(i) ==
  /\ Target(i).kind = "dir" /\ Target(i).origin # ""
  /\ trim(Target(i).origin) # trim(opts.repos[i].url)

SameOrigin(i) ==
  /\ Target(i).kind = "dir" /\ Target(i).origin # ""
  /\ trim(Target(i).origin) = trim(opts.repos[i].url)

\* Call i has thrown the error of a directory with a different origin.
ThrewDifferentOrigin(i) ==
  /\ mapper[i].pc = "done" /\ mapper[i].thrown # <<>>
  /\ StartsWith(mapper[i].thrown[1].message,
                "Directory \"" \o mapper[i].localPath
                  \o "\" already exists with a different origin.")

\* C25: prepareRepo for a remote URL that passes validation clones when the
\* target directory is missing, pulls when the directory is there with the
\* URL as its origin, and, when the directory is there with another origin,
\* throws and leaves the workspace as it is: the call goes on to no pull,
\* removal or clone.
PrepareRemoteCases ==
  [][\A i \in Indices :
       /\ (mapper[i].pc = "prepare" /\ mapper'[i].pc \in {"origin", "clone"})
            => (mapper'[i].pc = "clone" <=> Target(i).kind = "none")
       /\ (mapper[i].pc = "clone" /\ mapper'[i].pc = "analyse")
            => /\ Target(i).kind = "none"
               /\ at(folders', mapper[i].localPath)
                    = Clone(opts.repos[i].url, treeOf(opts.repos[i].url))
       /\ (mapper[i].pc = "origin" /\ mapper'[i].pc # "origin" /\ SameOrigin(i))
            => mapper'[i].pc = "pull"
       /\ (mapper[i].pc = "origin" /\ mapper'[i].pc # "origin" /\ DifferentOrigin(i))
            => /\ ThrewDifferentOrigin(i)'
               /\ folders' = folders
       /\ mapper[i].pc = "done" => mapper'[i].pc = "done"]_vars

\* A call threw on a different origin and the directory is still there,
\* with that origin.
OtherOriginLeftInPlace ==
  \E i \in Indices :
    /\ ThrewDifferentOrigin(i)
    /\ at(folders, mapper[i].localPath) = Clone("https://h.io/web", "web")
    /\ opts.repos[i].url = "https://h.io/web.git"


(***************************************************************************)
(* The grouping of the reporter.                                           *)
(***************************************************************************)
\* The group each rule type is documented to be reported in.
DocumentedGroup ==
  [ framework |-> "frameworks", app |-> "frameworks", language |-> "languages",
    db |-> "databases", tool |-> "tools", saas |-> "tools", monitoring |-> "tools" ]

\* The nodes of the payload the success report of call i was built from.
Reported(i) == analyseRepo(mapper[i].seen, mapper[i].localPath).childs

\* C26: in a success report every match is in the group documented for its
\* rule type: 'framework' and 'app' in frameworks, 'language' in languages,
\* 'db' in databases, 'tool', 'saas' and 'monitoring' in tools.
GroupedAsDocumented ==
  \A i \in DOMAIN reports :
    reports[i].status = "success" =>
      \A k \in 1..Len(Reported(i)) :
        Reported(i)[k].type \in DOMAIN DocumentedGroup =>
          /\ DocumentedGroup[Reported(i)[k].type] \in DOMAIN reports[i].results
          /\ Reported(i)[k].name
               \in Range(reports[i].results[DocumentedGroup[Reported(i)[k].type]])


(***************************************************************************)
(* Failures below the root listing.                                        *)
(***************************************************************************)
\* provider.listFiles('.') has been called and has not rejected.
RootListed == pc # "start" /\ <<>> \notin faults.list

\* Every call below the root listing fails: the listings of the
\* directories, the reads, the existence checks of the rules' markers.
EverythingFails ==
  /\ \E n \in DOMAIN disk : n # <<>> /\ disk[n].isDirectory
  /\ \E n \in DOMAIN disk : ~ disk[n].isDirectory
  /\ \A n \in DOMAIN disk : n # <<>> =>
       IF disk[n].isDirectory THEN n \in faults.list ELSE n \in faults.read
  /\ Markers(rules) # {} /\ Markers(rules) \subseteq faults.exists

\* What the analyser returns: a node for each of some rules of the catalog,
\* every rule having been evaluated.
ReturnedPayload ==
  /\ pc = "done"
  /\ Len(ruleLog) = Len(rules)
  /\ \A k \in 1..Len(matched) :
       \E i \in 1..Len(rules) :
         matched[k] = [name |-> rules[i].name, type |-> rules[i].type]

\* The analyser is at a position it leaves by a step of its own: the walk
\* of the next directory or the extraction after the last one, the reading
\* of the env files, the evaluation of the next rule or the return after
\* the last one.
GoesOn ==
  \/ pc = "walk" /\ dirIdx <= Len(dirs)
  \/ pc = "env"
  \/ pc = "rules" /\ ruleIdx <= Len(rules)

\* C27: once the root listing has succeeded the analyser does not reject,
\* whatever fails below the root listing and whatever the manifests hold:
\* it goes on until it has returned a Payload.
NeverRejectsBelowRoot ==
  RootListed => /\ pc # "rejected"
                /\ GoesOn \/ ReturnedPayload

\* The analyser returned although every listing below the root, every read
\* and every existence check failed.
ReturnedThoughEverythingFailed ==
  /\ pc = "done"
  /\ EverythingFails
  /\ \E i \in 1..Len(ruleLog) : ruleLog[i].result = "throw"


(***************************************************************************)
(* Scans in flight together.                                               *)
(***************************************************************************)
\* Call j is between the choice of its working directory and its return.
Working(j) ==
  /\ mapper[j].isTemporary
  /\ mapper[j].pc \in {"origin", "pull", "remove", "clone", "analyse", "analysing", "cleanup"}

\* C28: two scans in flight at the same time have different working
\* directories, so that a step of one scan (its clone, the removal before
\* its re-clone, its pull, its cleanup) leaves the working directory of
\* every other scan in flight as it was.
WorkingDirectoriesApart ==
  [][\A i, j \in Indices :
       (i # j /\ mapper'[i] # mapper[i] /\ Working(j))
         => /\ Working(i) => mapper[i].localPath # mapper[j].localPath
            /\ at(folders', mapper[j].localPath) = at(folders, mapper[j].localPath)]_vars


(***************************************************************************)
(* What a scan removes.                                                    *)
(***************************************************************************)
\* The paths at which this step removes something.
Removed == {p \in DOMAIN folders : folders[p].kind # "none" /\ at(folders', p).kind = "none"}

\* Call i takes this step.
Steps(i) == mapper'[i] # mapper[i]

=============================================================================
